---- MODULE Spec2Model ----
(***************************************************************************)
(* A model of hmm-rs: the manifest (hmm.json), the library cache           *)
(* (.haxelib/), the status evaluator (check_command.rs), the install       *)
(* orchestrator (install_command.rs) and the lock engine                   *)
(* (lock_command.rs).                                                       *)
(*                                                                         *)
(* Strings are sequences of one-character strings, so that escaping,       *)
(* hex parsing and id shortening are computed character by character.      *)
(* Option<String> is a sequence of length 0 (None) or 1 (Some).            *)
(***************************************************************************)
EXTENDS Integers, Sequences, FiniteSets, TLC

VARIABLES manifest, cache, last

vars == <<manifest, cache, last>>

(***************************************************************************)
(* Bounds.  Object ids have IdLen hex digits (40 in git); the automatic    *)
(* abbreviation length is AutoHexLen (7 in gix); the shortest prefix       *)
(* Prefix::from_hex accepts is MinHexLen (4 in gix).  The three are scaled *)
(* down together, keeping MinHexLen < AutoHexLen < IdLen.                  *)
(***************************************************************************)
IdLen == 3

AutoHexLen == 2

MinHexLen == 1

(***************************************************************************)
(* Option<String>                                                          *)
(***************************************************************************)
None == <<>>

Some(s) == <<s>>

IsSome(o) == o # <<>>

Unwrap(o) == o[1]

Min(a, b) == IF a < b THEN a ELSE b

(***************************************************************************)
(* The manifest model                                                       *)
(***************************************************************************)
HaxelibType == {"Git", "Haxelib", "Dev", "Mecurial"}

Haxelib(n, t, r, p, u, v) ==
    [name |-> n, haxelib_type |-> t, vcs_ref |-> r, dir |-> None,
     path |-> p, url |-> u, version |-> v]

\* str::replace(".", ",")
Escape(s) == [i \in DOMAIN s |-> IF s[i] = "." THEN "," ELSE s[i]]

name_as_commas(h) == Escape(h.name)

(***************************************************************************)
(* Object ids and prefixes (gix::hash::Prefix)                             *)
(***************************************************************************)
HexDigits == {"0", "1"}

\* an id from its leading digits, zero-filled to IdLen
Id(p) == [i \in 1..IdLen |-> IF i <= Len(p) THEN p[i] ELSE "0"]

\* two commits and one annotated-tag object
CommitX == Id(<<"1", "1">>)

CommitY == Id(<<"0", "1", "1">>)

TagObjT == Id(<<"0", "0", "1">>)

\* a commit created by `git commit` in the cache repository
CommitW == Id(<<"1", "0", "1">>)

Take(s, n) == SubSeq(s, 1, Min(n, Len(s)))

\* Id::shorten_or_id: the shortest prefix, at least AutoHexLen digits long,
\* that no other object of the repository shares; the full id when the
\* object is not in the object database
ShortenLen(id, objs) ==
    IF id \notin objs THEN IdLen
    ELSE LET ok(n) == \A o \in objs \ {id} : Take(o, n) # Take(id, n)
             cand == {n \in Min(AutoHexLen, IdLen)..IdLen : ok(n)}
         IN IF cand = {} THEN IdLen
            ELSE CHOOSE n \in cand : \A m \in cand : n <= m

shorten_or_id(id, objs) == Take(id, ShortenLen(id, objs))

\* Prefix::as_oid: the prefix digits followed by zeros
as_oid(prefix) == Id(prefix)

\* Prefix::cmp_oid(candidate).is_ne(): only the first hex_len digits of the
\* candidate are looked at
cmp_oid_is_ne(prefix, candidate) == Take(candidate, Len(prefix)) # prefix

\* Prefix::from_hex: Err when too short, too long or not hexadecimal
from_hex_ok(s) ==
    /\ Len(s) >= MinHexLen
    /\ Len(s) <= IdLen
    /\ \A i \in DOMAIN s : s[i] \in HexDigits

(***************************************************************************)
(* The cache: one entry per path segment under .haxelib/                   *)
(***************************************************************************)
Marker(st, val) == [st |-> st, val |-> val]

NoMarker == Marker("absent", <<>>)

\* a marker that opens but whose content cannot be read as a string
BadMarker == Marker("badread", <<>>)

OkMarker(s) == Marker("ok", s)

NoRefs == {}

Branch == <<"m">>

Tag == <<"t">>

\* refs is a set of <<name, target id>> pairs with distinct names
HasRef(refs, n) == \E r \in refs : r[1] = n

RefTarget(refs, n) == (CHOOSE r \in refs : r[1] = n)[2]

\* the git subdirectory: absent, a directory that is not a repository, or
\* a repository: head commit, whether HEAD is attached to the branch,
\* working tree dirty, named references (branches and tags), object
\* database, a stash entry, and the state of the managed remote
\* ("ok", "drift": present with another URL, "missing")
Git(st, head, dirty, refs, objs, remote) ==
    [st |-> st, head |-> head, dirty |-> dirty, refs |-> refs, objs |-> objs,
     on_branch |-> HasRef(refs, Branch) /\ RefTarget(refs, Branch) = head,
     stash |-> FALSE, remote |-> remote]

NoGit == Git("absent", <<>>, FALSE, NoRefs, {}, "missing")

\* a git directory in which, and above which, gix::discover finds no
\* repository
NotRepo == Git("notrepo", <<>>, FALSE, NoRefs, {}, "missing")

\* dirs: the extraction directories <escaped version>/, each a pair
\* <<escaped version, completely written>>
Entry(ex, dev, cur, git, dirs) ==
    [exists |-> ex, dev |-> dev, current |-> cur, git |-> git, dirs |-> dirs]

NoEntry == Entry(FALSE, NoMarker, NoMarker, NoGit, {})

\* the commit an object peels to (an annotated tag peels to its commit)
Peel(id) == IF id = TagObjT THEN CommitX ELSE id

(***************************************************************************)
(* Status Evaluator (check_command.rs)                                     *)
(***************************************************************************)
InstallType ==
    {"Missing", "MissingGit", "Outdated", "AlreadyInstalled", "Conflict",
     "NotLocked"}

\* HaxelibStatus::new
HaxelibStatus(lib, t, w, i) ==
    [lib |-> lib, install_type |-> t, wants |-> w, installed |-> i]

\* Result<HaxelibStatus>: Ok(status), Err, or a panic (unwrap on None)
OkStatus(s) == [res |-> "ok", st |-> s]

ErrStatus(lib) == [res |-> "err", st |-> HaxelibStatus(lib, "none", None, None)]

PanicStatus(lib) ==
    [res |-> "panic", st |-> HaxelibStatus(lib, "none", None, None)]

\* get_wants giving the declared ref for every kind but the registry's
get_wants_any_ref(haxelib) ==
    CASE haxelib.haxelib_type = "Haxelib" -> haxelib.version
      [] OTHER -> haxelib.vcs_ref

get_wants(haxelib) ==
    CASE haxelib.haxelib_type = "Haxelib" -> haxelib.version
      [] haxelib.haxelib_type = "Git" -> haxelib.vcs_ref
      [] OTHER -> None

\* the marker the evaluator reads: .dev when it exists, .current otherwise
current_file(e) == IF e.dev.st # "absent" THEN e.dev ELSE e.current

\* repo.find_reference(name) is Ok for a named reference of the repository
find_reference_ok(repo, name) == HasRef(repo.refs, name)

\* intended_commit: Reference::id() of the named reference (the target the
\* reference stores, not peeled), shortened; else the ref parsed as hex
intended_commit(repo, ref) ==
    IF find_reference_ok(repo, ref)
    THEN shorten_or_id(RefTarget(repo.refs, ref), repo.objs)
    ELSE ref

is_wrong_commit(repo, ref) ==
    cmp_oid_is_ne(shorten_or_id(repo.head, repo.objs),
                  as_oid(intended_commit(repo, ref)))

WrongAndDirty == <<" (wrong commit + local changes)">>

WrongCommit == <<" (wrong commit)">>

LocalChanges == <<" (local changes)">>

\* the HaxelibType::Git arm of check_dependency
check_git(haxelib, e) ==
    IF e.git.st = "absent"
    THEN OkStatus(HaxelibStatus(haxelib, "MissingGit", get_wants(haxelib), None))
    ELSE IF e.git.st = "notrepo"
    THEN OkStatus(HaxelibStatus(haxelib, "Missing", get_wants(haxelib), None))
    ELSE IF ~IsSome(haxelib.vcs_ref)
    THEN PanicStatus(haxelib)
    ELSE IF /\ ~find_reference_ok(e.git, Unwrap(haxelib.vcs_ref))
            /\ ~from_hex_ok(Unwrap(haxelib.vcs_ref))
    THEN ErrStatus(haxelib)
    ELSE LET wrong == is_wrong_commit(e.git, Unwrap(haxelib.vcs_ref))
             has_local_changes == e.git.dirty
         IN CASE wrong /\ has_local_changes ->
                   OkStatus(HaxelibStatus(haxelib, "Conflict", get_wants(haxelib),
                                          Some(e.git.head \o WrongAndDirty)))
              [] wrong /\ ~has_local_changes ->
                   OkStatus(HaxelibStatus(haxelib, "Outdated", get_wants(haxelib),
                                          Some(e.git.head \o WrongCommit)))
              [] ~wrong /\ has_local_changes ->
                   OkStatus(HaxelibStatus(haxelib, "Conflict", get_wants(haxelib),
                                          Some(e.git.head \o LocalChanges)))
              [] OTHER ->
                   OkStatus(HaxelibStatus(haxelib, "AlreadyInstalled",
                                          Some(Unwrap(haxelib.vcs_ref)), None))

\* check_haxelib comparing after trimming white space
check_haxelib_trimmed(haxelib, current_version) ==
    IF IsSome(haxelib.version)
    THEN IF Unwrap(haxelib.version) # SelectSeq(current_version, LAMBDA ch : ch \notin {" ", "\n", "\t"})
         THEN OkStatus(HaxelibStatus(haxelib, "Outdated", get_wants(haxelib),
                                     Some(current_version)))
         ELSE OkStatus(HaxelibStatus(haxelib, "AlreadyInstalled",
                                     Some(current_version), None))
    ELSE OkStatus(HaxelibStatus(haxelib, "NotLocked", None, Some(current_version)))

\* check_haxelib taking whatever is installed for a dependency that
\* declares no version
check_haxelib_any_version(haxelib, current_version) ==
    IF IsSome(haxelib.version) /\ Unwrap(haxelib.version) # current_version
    THEN OkStatus(HaxelibStatus(haxelib, "Outdated", get_wants(haxelib),
                                Some(current_version)))
    ELSE OkStatus(HaxelibStatus(haxelib, "AlreadyInstalled",
                                Some(current_version), None))

\* the HaxelibType::Haxelib arm of check_dependency
check_haxelib(haxelib, current_version) ==
    IF IsSome(haxelib.version)
    THEN IF Unwrap(haxelib.version) # current_version
         THEN OkStatus(HaxelibStatus(haxelib, "Outdated", get_wants(haxelib),
                                     Some(current_version)))
         ELSE OkStatus(HaxelibStatus(haxelib, "AlreadyInstalled",
                                     Some(current_version), None))
    ELSE OkStatus(HaxelibStatus(haxelib, "NotLocked", None, Some(current_version)))

\* check_dependency comparing versions for every kind but git
check_dependency_versions_all(haxelib, c) ==
    LET e == c[Escape(haxelib.name)]
        m == current_file(e)
    IN IF ~e.exists
       THEN OkStatus(HaxelibStatus(haxelib, "Missing", get_wants(haxelib), None))
       ELSE IF m.st \in {"absent", "noopen"}
       THEN OkStatus(HaxelibStatus(haxelib, "Missing", get_wants(haxelib), None))
       ELSE IF m.st = "badread"
       THEN ErrStatus(haxelib)
       ELSE IF haxelib.haxelib_type = "Git" THEN check_git(haxelib, e)
       ELSE check_haxelib(haxelib, m.val)

check_dependency(haxelib, c) ==
    LET e == c[Escape(haxelib.name)]
        m == current_file(e)
    IN IF ~e.exists
       THEN OkStatus(HaxelibStatus(haxelib, "Missing", get_wants(haxelib), None))
       ELSE IF m.st \in {"absent", "noopen"}
       THEN OkStatus(HaxelibStatus(haxelib, "Missing", get_wants(haxelib), None))
       ELSE IF m.st = "badread"
       THEN ErrStatus(haxelib)
       ELSE CASE haxelib.haxelib_type = "Haxelib" -> check_haxelib(haxelib, m.val)
              [] haxelib.haxelib_type = "Git" -> check_git(haxelib, e)
              [] OTHER -> OkStatus(HaxelibStatus(haxelib, "AlreadyInstalled",
                                                 Some(m.val), None))

\* print_install_status panics when it unwraps a descriptor that is None
print_install_status_panics(st) ==
    CASE st.install_type \in {"Missing", "MissingGit", "AlreadyInstalled"} ->
           ~IsSome(st.wants)
      [] st.install_type = "Outdated" -> ~IsSome(st.wants) \/ ~IsSome(st.installed)
      [] st.install_type = "NotLocked" -> ~IsSome(st.installed)
      [] OTHER -> FALSE

\* compare_haxelib_to_hmm: the first Err (or panic) ends the loop and the
\* statuses collected so far are dropped
RECURSIVE compare_from(_, _, _, _)
compare_from(deps, c, i, acc) ==
    IF i > Len(deps)
    THEN [res |-> "ok", statuses |-> acc]
    ELSE LET r == check_dependency(deps[i], c)
         IN IF r.res # "ok"
            THEN [res |-> r.res, statuses |-> <<>>]
            ELSE IF print_install_status_panics(r.st)
            THEN [res |-> "panic", statuses |-> <<>>]
            ELSE compare_from(deps, c, i + 1, Append(acc, r.st))

compare_haxelib_to_hmm(deps, c) == compare_from(deps, c, 1, <<>>)

(***************************************************************************)
(* Saving the manifest (json.rs)                                           *)
(***************************************************************************)
\* the characters of names, in byte order
CharOrder == <<",", ".", "0", "1", "A", "B", "C", "a", "b", "c">>

Rank(ch) == CHOOSE i \in DOMAIN CharOrder : CharOrder[i] = ch

to_lowercase_char(ch) ==
    CASE ch = "A" -> "a" [] ch = "B" -> "b" [] ch = "C" -> "c" [] ch = "D" -> "d"
      [] ch = "K" -> "k" [] ch = "O" -> "o" [] ch = "R" -> "r" [] ch = "S" -> "s"
      [] OTHER -> ch

to_lowercase(s) == [i \in DOMAIN s |-> to_lowercase_char(s[i])]

\* String::cmp(a, b) = Less
StrLess(a, b) ==
    LET n == Min(Len(a), Len(b))
        diff == {i \in 1..n : a[i] # b[i]}
    IN IF diff = {} THEN Len(a) < Len(b)
       ELSE LET k == CHOOSE i \in diff : \A j \in diff : i <= j
            IN Rank(a[k]) < Rank(b[k])

\* a comparator on the names as written
name_less_as_written(a, b) == StrLess(a.name, b.name)

\* the comparator of sort_by: Less on the lower-cased names
name_less(a, b) == StrLess(to_lowercase(a.name), to_lowercase(b.name))

\* Vec::sort_by is a stable sort
RECURSIVE sort_by_name(_)
sort_by_name(deps) ==
    IF deps = <<>> THEN <<>>
    ELSE LET x == deps[Len(deps)]
             front == sort_by_name(SubSeq(deps, 1, Len(deps) - 1))
             le(y) == ~name_less(x, y)
             gt(y) == name_less(x, y)
         IN SelectSeq(front, le) \o <<x>> \o SelectSeq(front, gt)

\* save_json: File::create fails (file untouched) or the sorted
\* dependencies replace the file content
save_json(deps, file, create_ok) ==
    IF create_ok THEN [res |-> "ok", file |-> sort_by_name(deps)]
    ELSE [res |-> "err", file |-> file]

(***************************************************************************)
(* Lock Engine (lock_command.rs)                                           *)
(***************************************************************************)
LockResult(kind, lib, val) == [kind |-> kind, lib |-> lib, val |-> val]

get_lib_path_entry(c, lib_name) == c[Escape(lib_name)]

\* lock_haxelib_dependency reporting the version without setting it
lock_haxelib_reports_only(lib, c) ==
    LET cur == get_lib_path_entry(c, lib.name).current
    IN IF IsSome(lib.version)
       THEN LockResult("AlreadyLocked", lib, Unwrap(lib.version))
       ELSE IF cur.st # "ok"
       THEN LockResult("Err", lib, <<>>)
       ELSE LockResult("Locked", lib, cur.val)

\* lock_haxelib_dependency reading the marker the evaluator reads
lock_haxelib_from_current_file(lib, c) ==
    LET cur == current_file(get_lib_path_entry(c, lib.name))
    IN IF IsSome(lib.version)
       THEN LockResult("AlreadyLocked", lib, Unwrap(lib.version))
       ELSE IF cur.st # "ok"
       THEN LockResult("Err", lib, <<>>)
       ELSE LockResult("Locked", [lib EXCEPT !.version = Some(cur.val)], cur.val)

lock_haxelib_dependency(lib, c) ==
    LET cur == get_lib_path_entry(c, lib.name).current
    IN IF IsSome(lib.version)
       THEN LockResult("AlreadyLocked", lib, Unwrap(lib.version))
       ELSE IF cur.st = "absent"
       THEN LockResult("Err", lib, <<>>)
       ELSE IF cur.st # "ok"
       THEN LockResult("Err", lib, <<>>)
       ELSE LockResult("Locked", [lib EXCEPT !.version = Some(cur.val)], cur.val)

\* lock_git_dependency without the comparison with the declared ref
lock_git_relocks(lib, c, long_id) ==
    LET repo == get_lib_path_entry(c, lib.name).git
        commit_sha == IF long_id THEN repo.head
                      ELSE shorten_or_id(repo.head, repo.objs)
    IN IF repo.st # "repo"
       THEN LockResult("Err", lib, <<>>)
       ELSE LockResult("Locked", [lib EXCEPT !.vcs_ref = Some(commit_sha)],
                       commit_sha)

\* lock_git_dependency without the long-id flag
lock_git_always_short(lib, c, long_id) ==
    LET repo == get_lib_path_entry(c, lib.name).git
        commit_sha == shorten_or_id(repo.head, repo.objs)
    IN IF repo.st # "repo"
       THEN LockResult("Err", lib, <<>>)
       ELSE IF lib.vcs_ref = Some(commit_sha)
       THEN LockResult("AlreadyLocked", lib, commit_sha)
       ELSE LockResult("Locked", [lib EXCEPT !.vcs_ref = Some(commit_sha)],
                       commit_sha)

lock_git_dependency(lib, c, long_id) ==
    LET repo == get_lib_path_entry(c, lib.name).git
        commit_sha == IF long_id THEN repo.head
                      ELSE shorten_or_id(repo.head, repo.objs)
    IN IF repo.st = "absent"
       THEN LockResult("Err", lib, <<>>)
       ELSE IF repo.st = "notrepo"
       THEN LockResult("Err", lib, <<>>)
       ELSE IF lib.vcs_ref = Some(commit_sha)
       THEN LockResult("AlreadyLocked", lib, commit_sha)
       ELSE LockResult("Locked", [lib EXCEPT !.vcs_ref = Some(commit_sha)],
                       commit_sha)

\* lock_dependency pinning the local-path and legacy kinds as well
lock_dependency_every_kind(lib, c, long_id) ==
    CASE lib.haxelib_type = "Haxelib" -> lock_haxelib_dependency(lib, c)
      [] lib.haxelib_type = "Git" -> lock_git_dependency(lib, c, long_id)
      [] OTHER -> LockResult("Locked", [lib EXCEPT !.version = Some(<<"0">>)], <<"0">>)

lock_dependency(lib, c, long_id) ==
    CASE lib.haxelib_type = "Haxelib" -> lock_haxelib_dependency(lib, c)
      [] lib.haxelib_type = "Git" -> lock_git_dependency(lib, c, long_id)
      [] OTHER -> LockResult("Skipped", lib, <<>>)

\* Dependancies::get_haxelib: Ok for a name of the manifest
get_haxelib_ok(deps, name) == \E i \in DOMAIN deps : deps[i].name = name

\* libs_to_lock.iter().any(|l| l.name == lib.name)
should_lock(deps, libs, lib) ==
    IF IsSome(libs)
    THEN \E k \in DOMAIN Unwrap(libs) : Unwrap(libs)[k] = lib.name
    ELSE \E i \in DOMAIN deps : deps[i].name = lib.name

NotSelected(lib) == LockResult("NotSelected", lib, <<>>)

\* the loop of lock_dependencies: one LockResult per dependency
lock_each(deps, c, libs, long_id) ==
    [i \in DOMAIN deps |->
        IF should_lock(deps, libs, deps[i])
        THEN lock_dependency(deps[i], c, long_id)
        ELSE NotSelected(deps[i])]

CountKind(results, kinds) == Cardinality({i \in DOMAIN results : results[i].kind \in kinds})

\* is_locked counting the legacy kind as not applicable
is_locked_legacy_na(lib) ==
    CASE lib.haxelib_type = "Haxelib" ->
           IF IsSome(lib.version) THEN "Locked" ELSE "NotLocked"
      [] lib.haxelib_type = "Git" ->
           IF IsSome(lib.vcs_ref) THEN "Locked" ELSE "NotLocked"
      [] OTHER -> "NotApplicable"

\* is_locked: the LockStatus of a dependency
is_locked(lib) ==
    CASE lib.haxelib_type = "Haxelib" ->
           IF IsSome(lib.version) THEN "Locked" ELSE "NotLocked"
      [] lib.haxelib_type = "Git" ->
           IF IsSome(lib.vcs_ref) THEN "Locked" ELSE "NotLocked"
      [] lib.haxelib_type = "Dev" -> "NotApplicable"
      [] OTHER -> IF IsSome(lib.vcs_ref) THEN "Locked" ELSE "NotLocked"

\* check_locked: locked_count counts Locked and NotApplicable, unlocked_libs
\* holds the rest, and the result is Err when unlocked_libs is not empty
check_locked(deps) ==
    LET unlocked_libs == {i \in DOMAIN deps : is_locked(deps[i]) = "NotLocked"}
    IN [locked_count |-> Cardinality(DOMAIN deps \ unlocked_libs),
        unlocked |-> Cardinality(unlocked_libs),
        res |-> IF unlocked_libs # {} THEN "err" ELSE "ok"]

\* saving only when no attempt errored
save_if_clean(results, updated_deps, file, create_ok) ==
    IF CountKind(results, {"Locked"}) > 0 /\ CountKind(results, {"Err"}) = 0
    THEN save_json(updated_deps, file, create_ok)
    ELSE [res |-> "none", file |-> file]

\* if locked_count > 0 { json::save_json(..)? }
save_if_locked(results, updated_deps, file, create_ok) ==
    IF CountKind(results, {"Locked"}) > 0
    THEN save_json(updated_deps, file, create_ok)
    ELSE [res |-> "none", file |-> file]

(***************************************************************************)
(* The states the commands start from                                      *)
(***************************************************************************)
NameA == <<"a">>

NameB == <<"b", ".", "c">>

\* a name no dependency has
NameZ == <<"C">>

V1 == <<"1", ".", "0">>

V2 == <<"1", ".", "1">>

\* V1 followed by a line feed
V1nl == <<"1", ".", "0", "\n">>

GitMarker == <<"g", "i", "t">>

DevPath == <<"/", "p">>

Url1 == <<"h", "/", "O", "/", "R">>

NoSuchRef == <<"x">>

\* the refs a manifest declares: a branch, an annotated tag, a name the
\* repository does not have, and hexadecimal ids of several lengths
DeclaredRefs ==
    {Branch, Tag, NoSuchRef, CommitX, CommitY, Take(CommitX, AutoHexLen),
     Take(CommitX, MinHexLen)}

AllObjs == {CommitX, CommitY, TagObjT}

\* the references of a clone: the branch at either commit, with or without
\* the annotated tag (whose tag object peels to CommitX)
RefConfigs == {{<<Branch, CommitX>>}, {<<Branch, CommitY>>, <<Tag, TagObjT>>}}

Repos ==
    {Git("repo", h, d, r, AllObjs, rm) :
        h \in {CommitX, CommitY}, d \in BOOLEAN, r \in RefConfigs,
        rm \in {"ok", "missing"}}

\* a repository whose .current marker is gone
BareRepo == Git("repo", CommitY, FALSE, {<<Branch, CommitY>>}, AllObjs, "ok")

GitDeps(n) ==
    {Haxelib(n, "Git", r, None, Some(Url1), None) : r \in {None} \cup {Some(x) : x \in DeclaredRefs}}
    \cup {Haxelib(n, "Git", Some(Branch), None, None, None)}

HaxelibDeps(n) ==
    {Haxelib(n, "Haxelib", None, None, None, v) : v \in {None, Some(V1), Some(V2)}}

OtherDeps(n) ==
    {Haxelib(n, "Dev", None, Some(DevPath), None, None),
     Haxelib(n, "Mecurial", None, None, None, None),
     Haxelib(n, "Mecurial", Some(Branch), None, None, None)}

\* cache entries a registry install, a dev-add or a foreign tool leaves
Extracted(v) == {<<Escape(v), TRUE>>}

PlainEntries ==
    {NoEntry, Entry(TRUE, NoMarker, NoMarker, NoGit, {}),
     Entry(TRUE, NoMarker, BadMarker, NoGit, {}),
     Entry(TRUE, NoMarker, OkMarker(V1), NoGit, Extracted(V1)),
     Entry(TRUE, NoMarker, OkMarker(V1nl), NoGit, Extracted(V1)),
     Entry(TRUE, OkMarker(DevPath), NoMarker, NoGit, {}),
     Entry(TRUE, OkMarker(DevPath), OkMarker(V1), NoGit, Extracted(V1))}

\* cache entries a git install leaves, whole or damaged
GitEntries ==
    {NoEntry, Entry(TRUE, NoMarker, OkMarker(GitMarker), NoGit, {}),
     Entry(TRUE, NoMarker, OkMarker(GitMarker), NotRepo, {}),
     Entry(TRUE, NoMarker, NoMarker, BareRepo, {})}
    \cup {Entry(TRUE, NoMarker, OkMarker(GitMarker), g, {}) : g \in Repos}

\* the dependency under study with its cache entry
Subjects ==
    {<<d, e>> : d \in HaxelibDeps(NameB) \cup OtherDeps(NameB), e \in PlainEntries}
    \cup {<<d, e>> : d \in GitDeps(NameB), e \in GitEntries}

\* a second, registry-hosted dependency with its cache entry
Companions ==
    {<<Haxelib(NameA, "Haxelib", None, None, None, None),
       Entry(TRUE, NoMarker, OkMarker(V1), NoGit, Extracted(V1))>>,
     <<Haxelib(NameA, "Haxelib", None, None, None, Some(V1)), NoEntry>>}

CacheKeys == {Escape(NameA), Escape(NameB), NameB}

CacheOf(pairs) ==
    [k \in CacheKeys |->
        IF \E p \in pairs : Escape(p[1].name) = k
        THEN (CHOOSE p \in pairs : Escape(p[1].name) = k)[2]
        ELSE NoEntry]

\* no environment: nothing fails and nothing is typed
NoEnv == [faults |-> {}, input |-> <<>>, message |-> <<>>]

LastNone ==
    [op |-> "none", res |-> "ok", idx |-> 0, statuses |-> <<>>,
     results |-> <<>>, before |-> <<>>, updated |-> <<>>, libs |-> None,
     long_id |-> FALSE, save |-> "none", cache_before |-> CacheOf({}),
     locked_count |-> 0, unlocked |-> 0, env |-> NoEnv, remote |-> None]

\* one dependency under study, alone or followed by a companion
InitFrom(subjects) ==
    /\ \E s \in subjects :
         \/ /\ manifest = <<s[1]>>
            /\ cache = CacheOf({s})
         \/ \E c \in Companions :
              /\ manifest = <<s[1], c[1]>>
              /\ cache = CacheOf({s, c})
    /\ last = LastNone

Init == InitFrom(Subjects)

\* for the lock engine the working tree, the tag and the remote of a
\* repository play no part
LockSubjects ==
    {s \in Subjects :
        s[2].git.st = "repo" =>
            ~s[2].git.dirty /\ s[2].git.remote = "ok" /\ ~HasRef(s[2].git.refs, Tag)}

InitLock == InitFrom(LockSubjects)

(***************************************************************************)
(* Remote names (install_command.rs, parse_remote_name_from_url)           *)
(***************************************************************************)
Whitespace == {" ", "\n", "\t"}

StartsWith(s, p) == Len(s) >= Len(p) /\ SubSeq(s, 1, Len(p)) = p

EndsWith(s, p) == Len(s) >= Len(p) /\ SubSeq(s, Len(s) - Len(p) + 1, Len(s)) = p

RECURSIVE trim(_)
trim(s) ==
    IF s # <<>> /\ s[1] \in Whitespace THEN trim(Tail(s))
    ELSE IF s # <<>> /\ s[Len(s)] \in Whitespace THEN trim(SubSeq(s, 1, Len(s) - 1))
    ELSE s

RECURSIVE trim_start_matches(_, _)
trim_start_matches(s, p) ==
    IF StartsWith(s, p) THEN trim_start_matches(SubSeq(s, Len(p) + 1, Len(s)), p)
    ELSE s

RECURSIVE trim_end_matches(_, _)
trim_end_matches(s, p) ==
    IF EndsWith(s, p) THEN trim_end_matches(SubSeq(s, 1, Len(s) - Len(p)), p)
    ELSE s

\* s.split(ch).last()
split_last(s, ch) ==
    LET at == {i \in DOMAIN s : s[i] = ch}
    IN IF at = {} THEN s
       ELSE SubSeq(s, (CHOOSE i \in at : \A j \in at : j <= i) + 1, Len(s))

\* s.split('/').filter(|x| !x.is_empty())
RECURSIVE split_nonempty(_, _, _)
split_nonempty(s, ch, cur) ==
    IF s = <<>> THEN (IF cur = <<>> THEN <<>> ELSE <<cur>>)
    ELSE IF s[1] = ch
    THEN (IF cur = <<>> THEN <<>> ELSE <<cur>>) \o split_nonempty(Tail(s), ch, <<>>)
    ELSE split_nonempty(Tail(s), ch, Append(cur, s[1]))

Https == <<"h", "t", "t", "p", "s", ":", "/", "/">>

Http == <<"h", "t", "t", "p", ":", "/", "/">>

Ssh == <<"s", "s", "h", ":", "/", "/">>

GitAt == <<"g", "i", "t", "@">>

DotGit == <<".", "g", "i", "t">>

\* Result<String>: [ok, name]
parse_remote_name_from_url(url) ==
    LET path == trim_start_matches(trim_start_matches(trim_start_matches(
                    trim_start_matches(trim(url), Https), Http), Ssh), GitAt)
        repo_path == split_last(path, ":")
        path_parts == split_nonempty(repo_path, "/", <<>>)
        n == Len(path_parts)
    IN IF n < 2 THEN [ok |-> FALSE, name |-> <<>>]
       ELSE [ok |-> TRUE,
             name |-> path_parts[n - 1] \o <<"/">> \o trim_end_matches(path_parts[n], DotGit)]

(***************************************************************************)
(* The git tool, as the backend drives it                                  *)
(***************************************************************************)
\* the remote repository every URL of the model names: its default branch
\* and its annotated tag
RemoteRefs == {<<Branch, CommitY>>, <<Tag, TagObjT>>}

\* `git clone`: HEAD on the default branch, the remote still named origin
ClonedRepo == Git("repo", CommitY, FALSE, RemoteRefs, AllObjs, "missing")

\* the commit `git checkout <ref>` resolves ref to: a branch or tag name,
\* else an unambiguous hexadecimal prefix of an object of the repository
git_rev_parse(repo, ref) ==
    LET hits == {o \in repo.objs : Take(o, Len(ref)) = ref}
    IN IF HasRef(repo.refs, ref) THEN Some(Peel(RefTarget(repo.refs, ref)))
       ELSE IF from_hex_ok(ref) /\ Cardinality(hits) = 1
       THEN Some(Peel(CHOOSE o \in hits : TRUE))
       ELSE None

\* a successful `git checkout <ref>`
git_checkout(repo, ref) ==
    [repo EXCEPT !.head = Unwrap(git_rev_parse(repo, ref)),
                 !.on_branch = (ref = Branch /\ HasRef(repo.refs, Branch))]

\* a successful `git fetch <remote>`: the remote's objects and tags arrive;
\* local branches stay where they are
git_fetch(repo) ==
    [repo EXCEPT !.objs = @ \cup AllObjs,
                 !.refs = @ \cup {r \in RemoteRefs : r[1] = Tag /\ ~HasRef(repo.refs, Tag)}]

\* a successful `git commit`: a new commit becomes HEAD; the branch follows
\* when HEAD is attached to it
git_commit(repo) ==
    [repo EXCEPT !.head = CommitW, !.dirty = FALSE, !.objs = @ \cup {CommitW},
                 !.refs = IF repo.on_branch
                          THEN {r \in @ : r[1] # Branch} \cup {<<Branch, CommitW>>}
                          ELSE @]

\* Result<()> of a backend with the cache it leaves and the commands it ran
Out(res, c, log) == [res |-> res, cache |-> c, log |-> log]

\* the Result of n run after out: n's outcome, the commands of both
Then(out, n) == Out(n.res, n.cache, out.log \o n.log)

\* create_current_file
create_current_file(e, content) ==
    [e EXCEPT !.exists = TRUE, !.current = OkMarker(content)]

(***************************************************************************)
(* Registry Backend and Version-Control Backend (install_command.rs)       *)
(*                                                                         *)
(* faults is the set of external steps that fail in this run               *)
(***************************************************************************)
install_from_haxelib(haxelib, c, faults) ==
    LET k == name_as_commas(haxelib)
        v == Unwrap(haxelib.version)
        marked == create_current_file(c[k], v)
        others == {d \in marked.dirs : d[1] # Escape(v)}
        partial == [marked EXCEPT !.dirs = others \cup {<<Escape(v), FALSE>>}]
        full == [marked EXCEPT !.dirs = others \cup {<<Escape(v), TRUE>>}]
    IN IF ~IsSome(haxelib.version) THEN Out("err", c, <<>>)
       ELSE IF "http" \in faults THEN Out("err", c, <<"http_get">>)
       ELSE IF "size" \in faults THEN Out("err", c, <<"http_get", "download">>)
       ELSE IF "zip" \in faults
       THEN Out("err", [c EXCEPT ![k] = marked], <<"http_get", "download", "write_current">>)
       ELSE IF "extract" \in faults
       THEN Out("err", [c EXCEPT ![k] = partial],
                <<"http_get", "download", "write_current", "extract">>)
       ELSE Out("ok", [c EXCEPT ![k] = full],
                <<"http_get", "download", "write_current", "extract">>)

Origin == <<"o", "r", "i", "g", "i", "n">>

\* the name of the clone's remote after rename_origin_remote: a rename
\* that fails is only noted and origin stays
rename_origin_remote(new_name, faults) ==
    IF "rename" \in faults THEN Origin ELSE new_name

\* a clone that gives up when the blob-less attempt fails
clone_without_fallback(haxelib, c, faults) ==
    LET k == name_as_commas(haxelib)
        remote_name == parse_remote_name_from_url(Unwrap(haxelib.url))
        cloned == [c[k] EXCEPT !.exists = TRUE, !.git = ClonedRepo]
        renamed == [cloned EXCEPT !.git.remote = IF "rename" \in faults THEN "missing" ELSE "ok"]
    IN IF ~IsSome(haxelib.url) THEN Out("panic", c, <<>>)
       ELSE IF "blobless" \in faults THEN Out("err", c, <<"clone_blobless">>)
       ELSE IF ~remote_name.ok THEN Out("err", [c EXCEPT ![k] = cloned], <<"clone_blobless">>)
       ELSE Out("ok", [c EXCEPT ![k] = renamed], <<"clone_blobless", "remote_rename">>)

clone_blobless_git_repo(haxelib, c, faults) ==
    LET k == name_as_commas(haxelib)
        remote_name == parse_remote_name_from_url(Unwrap(haxelib.url))
        cloned == [c[k] EXCEPT !.exists = TRUE, !.git = ClonedRepo]
        renamed == [cloned EXCEPT !.git.remote = IF "rename" \in faults THEN "missing" ELSE "ok"]
        clones == IF "blobless" \in faults THEN <<"clone_blobless", "clone_full">>
                  ELSE <<"clone_blobless">>
    IN IF ~IsSome(haxelib.url) THEN Out("panic", c, <<>>)
       ELSE IF "blobless" \in faults /\ "clone" \in faults THEN Out("err", c, clones)
       ELSE IF ~remote_name.ok THEN Out("err", [c EXCEPT ![k] = cloned], clones)
       ELSE Out("ok", [c EXCEPT ![k] = renamed], clones \o <<"remote_rename">>)

ensure_git_remote(haxelib, c, faults) ==
    LET k == name_as_commas(haxelib)
        repo == c[k].git
        fixed == [c EXCEPT ![k].git.remote = "ok"]
    IN IF repo.st # "repo" THEN Out("err", c, <<"remote_get_url", "remote_add">>)
       ELSE IF repo.remote = "ok" THEN Out("ok", c, <<"remote_get_url">>)
       ELSE IF repo.remote = "drift"
       THEN (IF "remote_set_url" \in faults
             THEN Out("err", c, <<"remote_get_url", "remote_set_url">>)
             ELSE Out("ok", fixed, <<"remote_get_url", "remote_set_url">>))
       ELSE (IF "remote_add" \in faults
             THEN Out("err", c, <<"remote_get_url", "remote_add">>)
             ELSE Out("ok", fixed, <<"remote_get_url", "remote_add">>))

\* the checkout, fetch and second checkout of smart_checkout_git_ref
checkout_or_fetch(haxelib, c, faults) ==
    LET k == name_as_commas(haxelib)
        target_ref == Unwrap(haxelib.vcs_ref)
        repo == c[k].git
        fetched == git_fetch(repo)
    IN IF "checkout" \notin faults /\ IsSome(git_rev_parse(repo, target_ref))
       THEN Out("ok", [c EXCEPT ![k].git = git_checkout(repo, target_ref)], <<"checkout">>)
       ELSE IF "fetch" \in faults THEN Out("err", c, <<"checkout", "fetch">>)
       ELSE IF "checkout_retry" \notin faults /\ IsSome(git_rev_parse(fetched, target_ref))
       THEN Out("ok", [c EXCEPT ![k].git = git_checkout(fetched, target_ref)],
                <<"checkout", "fetch", "checkout_retry">>)
       ELSE Out("err", [c EXCEPT ![k].git = fetched],
                <<"checkout", "fetch", "checkout_retry">>)

\* ensure_git_remote(..)?; then the checkout
checkout_after(haxelib, remote, faults) ==
    IF remote.res # "ok" THEN remote
    ELSE Then(remote, checkout_or_fetch(haxelib, remote.cache, faults))

smart_checkout_git_ref(haxelib, c, faults) ==
    IF ~IsSome(haxelib.url) THEN Out("panic", c, <<>>)
    ELSE IF ~parse_remote_name_from_url(Unwrap(haxelib.url)).ok THEN Out("err", c, <<>>)
    ELSE checkout_after(haxelib, ensure_git_remote(haxelib, c, faults), faults)

\* a submodule update whose exit status is not looked at
update_git_submodules_unchecked(haxelib, c, faults) ==
    IF c[name_as_commas(haxelib)].git.st # "repo"
    THEN Out("err", c, <<"submodule">>)
    ELSE Out("ok", c, <<"submodule">>)

update_git_submodules(haxelib, c, faults) ==
    IF "submodule" \in faults \/ c[name_as_commas(haxelib)].git.st # "repo"
    THEN Out("err", c, <<"submodule">>)
    ELSE Out("ok", c, <<"submodule">>)

\* the first step of install_or_update_git_cli: clone when git/ is absent,
\* then write the .current marker
\* clone_blobless_git_repo(..)?; create_current_file(..)?
mark_after(k, clone) ==
    IF clone.res # "ok" THEN clone
    ELSE Out("ok", [clone.cache EXCEPT ![k] = create_current_file(clone.cache[k], GitMarker)],
             clone.log \o <<"write_current">>)

ensure_repository(haxelib, c, faults) ==
    IF c[name_as_commas(haxelib)].git.st # "absent" THEN Out("ok", c, <<>>)
    ELSE mark_after(name_as_commas(haxelib), clone_blobless_git_repo(haxelib, c, faults))

\* if let Some(target_ref) = haxelib.vcs_ref.as_ref()
checkout_declared_ref(haxelib, c, faults) ==
    IF IsSome(haxelib.vcs_ref) THEN smart_checkout_git_ref(haxelib, c, faults)
    ELSE Out("ok", c, <<>>)

(***************************************************************************)
(* Conflict Resolver (install_command.rs)                                  *)
(***************************************************************************)
\* a prompt that stashes on an answer it does not know
prompt_conflict_resolution_stash_default(input) ==
    LET w == to_lowercase(trim(input))
    IN CASE w \in {<<"s">>, <<"s", "t", "a", "s", "h">>} -> "Stash"
         [] w \in {<<"d">>, <<"d", "i", "s", "c", "a", "r", "d">>} -> "Discard"
         [] w \in {<<"c">>, <<"c", "o", "m", "m", "i", "t">>} -> "Commit"
         [] w \in {<<"k">>, <<"s", "k", "i", "p">>} -> "Skip"
         [] OTHER -> "Stash"

\* the match of prompt_conflict_resolution on the line read from stdin
prompt_conflict_resolution(input) ==
    LET w == to_lowercase(trim(input))
    IN CASE w \in {<<"s">>, <<"s", "t", "a", "s", "h">>} -> "Stash"
         [] w \in {<<"d">>, <<"d", "i", "s", "c", "a", "r", "d">>} -> "Discard"
         [] w \in {<<"c">>, <<"c", "o", "m", "m", "i", "t">>} -> "Commit"
         [] w \in {<<"k">>, <<"s", "k", "i", "p">>} -> "Skip"
         [] OTHER -> "Skip"

git_stash_push(haxelib, c, faults) ==
    LET k == name_as_commas(haxelib)
    IN IF "stash_push" \in faults THEN Out("err", c, <<"stash_push">>)
       ELSE Out("ok", [c EXCEPT ![k].git.dirty = FALSE, ![k].git.stash = TRUE],
                <<"stash_push">>)

\* a pop that fails is a warning (Ok) when its stderr contains CONFLICT.
\* git reports a merge conflict of `stash pop` on stdout
\* ("stash_pop_conflict"); "stash_pop_conflict_stderr" is a tool that
\* reports it on stderr. Either way the stash entry is kept.
git_stash_pop(haxelib, c, faults) ==
    LET k == name_as_commas(haxelib)
    IN IF "stash_pop_conflict_stderr" \in faults
       THEN Out("ok", [c EXCEPT ![k].git.dirty = TRUE], <<"stash_pop">>)
       ELSE IF "stash_pop_conflict" \in faults
       THEN Out("err", [c EXCEPT ![k].git.dirty = TRUE], <<"stash_pop">>)
       ELSE IF "stash_pop" \in faults THEN Out("err", c, <<"stash_pop">>)
       ELSE Out("ok", [c EXCEPT ![k].git.dirty = TRUE, ![k].git.stash = FALSE],
                <<"stash_pop">>)

git_discard_changes(haxelib, c, faults) ==
    LET k == name_as_commas(haxelib)
        reset == [c EXCEPT ![k].git.dirty = FALSE]
    IN IF "reset" \in faults THEN Out("err", c, <<"reset">>)
       ELSE IF "clean" \in faults THEN Out("err", reset, <<"reset", "clean">>)
       ELSE Out("ok", reset, <<"reset", "clean">>)

\* a commit that fails is Ok when its stderr contains "nothing to commit".
\* git prints that on stdout ("commit_nothing"); "commit_nothing_stderr" is
\* a tool that prints it on stderr.
git_commit_changes(haxelib, c, faults, message) ==
    LET k == name_as_commas(haxelib)
    IN IF trim(message) = <<>> THEN Out("err", c, <<"read_message">>)
       ELSE IF "add" \in faults THEN Out("err", c, <<"read_message", "add">>)
       ELSE IF "commit_nothing_stderr" \in faults
       THEN Out("ok", c, <<"read_message", "add", "commit">>)
       ELSE IF "commit_nothing" \in faults
       THEN Out("err", c, <<"read_message", "add", "commit">>)
       ELSE IF "commit" \in faults THEN Out("err", c, <<"read_message", "add", "commit">>)
       ELSE Out("ok", [c EXCEPT ![k].git = git_commit(c[k].git)],
                <<"read_message", "add", "commit">>)

\* one fallible call of a backend; o is the environment of the run: the
\* steps that fail, the line typed at the conflict prompt and the line
\* typed as commit message
step(name, haxelib, c, o) ==
    CASE name = "ensure_repository" -> ensure_repository(haxelib, c, o.faults)
      [] name = "checkout_declared_ref" -> checkout_declared_ref(haxelib, c, o.faults)
      [] name = "update_git_submodules" -> update_git_submodules(haxelib, c, o.faults)
      [] name = "git_stash_push" -> git_stash_push(haxelib, c, o.faults)
      [] name = "git_stash_pop" -> git_stash_pop(haxelib, c, o.faults)
      [] name = "git_discard_changes" -> git_discard_changes(haxelib, c, o.faults)
      [] name = "git_commit_changes" -> git_commit_changes(haxelib, c, o.faults, o.message)
      [] OTHER -> Out("ok", c, <<>>)

\* calls chained with `?`: the first that fails ends the chain
RECURSIVE run_steps(_, _, _, _)
run_steps(steps, haxelib, out, o) ==
    IF steps = <<>> \/ out.res # "ok" THEN out
    ELSE run_steps(Tail(steps), haxelib,
                   Then(out, step(Head(steps), haxelib, out.cache, o)), o)

\* the calls of install_or_update_git_cli
GitCliSteps == <<"ensure_repository", "checkout_declared_ref", "update_git_submodules">>

install_or_update_git_cli(haxelib, c, o) ==
    run_steps(GitCliSteps, haxelib, Out("ok", c, <<>>), o)

\* strategy arms that discard after the update
resolve_conflict_update_first(choice) ==
    CASE choice = "Stash" -> <<"git_stash_push">> \o GitCliSteps \o <<"git_stash_pop">>
      [] choice = "Discard" -> GitCliSteps \o <<"git_discard_changes">>
      [] choice = "Commit" -> <<"git_commit_changes">> \o GitCliSteps
      [] OTHER -> <<>>

\* the strategy arms of handle_git_conflict
resolve_conflict(choice) ==
    CASE choice = "Stash" -> <<"git_stash_push">> \o GitCliSteps \o <<"git_stash_pop">>
      [] choice = "Discard" -> <<"git_discard_changes">> \o GitCliSteps
      [] choice = "Commit" -> <<"git_commit_changes">> \o GitCliSteps
      [] OTHER -> <<>>

handle_git_conflict(st, c, o) ==
    IF ~IsSome(st.installed) \/ ~IsSome(st.wants)
    THEN Out("panic", c, <<"diff_stat">>)
    ELSE run_steps(resolve_conflict(prompt_conflict_resolution(o.input)), st.lib,
                   Out("ok", c, <<"diff_stat", "prompt">>), o)

(***************************************************************************)
(* Install Orchestrator (install_command.rs)                               *)
(***************************************************************************)
\* handle_install: the backend by kind
handle_install(st) ==
    CASE st.lib.haxelib_type = "Haxelib" -> "install_from_haxelib"
      [] st.lib.haxelib_type = "Git" -> "install_or_update_git_cli"
      [] OTHER -> "not_yet_implemented"

\* a dispatch that installs what is present but not locked
dispatch_installs_unlocked(st) ==
    CASE st.install_type \in {"Missing", "MissingGit", "Outdated", "NotLocked"} ->
           handle_install(st)
      [] st.install_type = "Conflict" -> "handle_git_conflict"
      [] OTHER -> "nothing"

\* the match of install_from_hmm on the status tag
dispatch(st) ==
    CASE st.install_type \in {"Missing", "MissingGit"} -> handle_install(st)
      [] st.install_type = "Outdated" ->
           (CASE st.lib.haxelib_type = "Haxelib" -> "install_from_haxelib"
              [] st.lib.haxelib_type = "Git" -> "install_or_update_git_cli"
              [] OTHER -> "not_yet_implemented")
      [] st.install_type = "Conflict" -> "handle_git_conflict"
      [] st.install_type = "AlreadyInstalled" -> "nothing"
      [] OTHER -> "not_implemented"

run_backend(b, st, c, o) ==
    CASE b = "install_from_haxelib" -> install_from_haxelib(st.lib, c, o.faults)
      [] b = "install_or_update_git_cli" -> install_or_update_git_cli(st.lib, c, o)
      [] b = "handle_git_conflict" -> handle_git_conflict(st, c, o)
      [] OTHER -> Out("ok", c, <<>>)

Processed(b, res, log) == [backend |-> b, res |-> res, log |-> log]

\* the loop of install_from_hmm: the first Err (or panic) returns; the
\* statuses after it are not looked at
RECURSIVE install_loop(_, _, _, _, _)
\* `?` on the Result r of backend b for the i-th status
return_or_continue(statuses, o, i, acc, r) ==
    IF r.res # "ok"
    THEN [res |-> r.res, cache |-> r.cache, results |-> acc, statuses |-> <<>>]
    ELSE install_loop(statuses, r.cache, o, i + 1, acc)

processed(acc, b, r) == Append(acc, Processed(b, r.res, r.log))

install_status(statuses, c, o, i, acc, b, r) ==
    return_or_continue(statuses, o, i, processed(acc, b, r), r)

install_loop(statuses, c, o, i, acc) ==
    IF i > Len(statuses)
    THEN [res |-> "ok", cache |-> c, results |-> acc, statuses |-> <<>>]
    ELSE install_status(statuses, c, o, i, acc, dispatch(statuses[i]),
                        run_backend(dispatch(statuses[i]), statuses[i], c, o))

\* the loop over installs_needed, when compare_haxelib_to_hmm returned Ok
install_needed(installs_needed, c, o) ==
    IF installs_needed.res # "ok"
    THEN [res |-> installs_needed.res, cache |-> c, results |-> <<>>, statuses |-> <<>>]
    ELSE [install_loop(installs_needed.statuses, c, o, 1, <<>>)
            EXCEPT !.statuses = installs_needed.statuses]

install_from_hmm(deps, c, o) == install_needed(compare_haxelib_to_hmm(deps, c), c, o)

(***************************************************************************)
(* git-add (git_command.rs)                                                *)
(***************************************************************************)
HeadWord == <<"H", "E", "A", "D">>

Main == <<"m", "a", "i", "n">>

\* `git rev-parse HEAD`: the commit id, or a failure when HEAD names no
\* commit (a repository without commits, or no repository)
rev_parse_head(repo) ==
    IF repo.st = "repo" /\ repo.head # <<>> THEN Some(repo.head) ELSE None

\* `git rev-parse --abbrev-ref HEAD`: the branch name, the word HEAD when
\* HEAD is detached, or a failure when HEAD names no commit
rev_parse_abbrev_ref_head(repo) ==
    IF ~IsSome(rev_parse_head(repo)) THEN None
    ELSE IF repo.on_branch THEN Some(Branch)
    ELSE Some(HeadWord)

detect_current_git_ref(repo) ==
    LET branch_output == rev_parse_abbrev_ref_head(repo)
        commit_output == rev_parse_head(repo)
    IN IF IsSome(branch_output)
       THEN (IF Unwrap(branch_output) = HeadWord /\ IsSome(commit_output)
             THEN Unwrap(commit_output)
             ELSE Unwrap(branch_output))
       ELSE IF IsSome(commit_output) THEN Unwrap(commit_output)
       ELSE Main

\* the ref of the entry git-add writes: the one given, else the detected one
with_detected_ref(haxelib_install, c) ==
    IF IsSome(haxelib_install.vcs_ref) THEN haxelib_install
    ELSE [haxelib_install EXCEPT
            !.vcs_ref = Some(detect_current_git_ref(c[name_as_commas(haxelib_install)].git))]

\* deps.dependencies.retain(|lib| lib.name != name); push
retain_and_push(deps, lib) ==
    SelectSeq(deps, LAMBDA d : d.name # lib.name) \o <<lib>>

(***************************************************************************)
(* Commands                                                                *)
(***************************************************************************)
\* EvaluateStatus: check_dependency on one dependency of the manifest
EvaluateStatus(i) ==
    /\ i \in DOMAIN manifest
    /\ LET r == check_dependency(manifest[i], cache)
       IN last' = [LastNone EXCEPT !.op = "evaluate", !.idx = i, !.res = r.res,
                                   !.statuses = <<r.st>>, !.before = manifest]
    /\ UNCHANGED <<manifest, cache>>

\* `hmm check`: compare_haxelib_to_hmm over the manifest
Check ==
    /\ LET r == compare_haxelib_to_hmm(manifest, cache)
       IN last' = [LastNone EXCEPT !.op = "check", !.res = r.res,
                                   !.statuses = r.statuses, !.before = manifest]
    /\ UNCHANGED <<manifest, cache>>

Selections == {None, Some(<<NameA>>), Some(<<NameB>>), Some(<<NameB, NameZ>>)}

\* `hmm lock`: lock_dependencies
Lock(libs, long_id, create_ok) ==
    IF IsSome(libs) /\ \E k \in DOMAIN Unwrap(libs) : ~get_haxelib_ok(manifest, Unwrap(libs)[k])
    THEN /\ last' = [LastNone EXCEPT !.op = "lock", !.res = "err", !.libs = libs,
                                     !.long_id = long_id, !.before = manifest,
                                     !.updated = manifest]
         /\ UNCHANGED <<manifest, cache>>
    ELSE LET results == lock_each(manifest, cache, libs, long_id)
             updated_deps == [i \in DOMAIN manifest |-> results[i].lib]
             error_count == CountKind(results, {"Err"})
             saved == save_if_locked(results, updated_deps, manifest, create_ok)
         IN /\ manifest' = saved.file
            /\ last' = [LastNone EXCEPT
                          !.op = "lock", !.libs = libs, !.long_id = long_id,
                          !.before = manifest, !.updated = updated_deps,
                          !.results = results, !.save = saved.res,
                          !.res = IF saved.res = "err" \/ error_count > 0
                                  THEN "err" ELSE "ok"]
            /\ UNCHANGED cache

\* `hmm lock check`: check_locked
CheckLocked ==
    /\ LET r == check_locked(manifest)
       IN last' = [LastNone EXCEPT !.op = "check_locked", !.res = r.res,
                                   !.locked_count = r.locked_count,
                                   !.unlocked = r.unlocked,
                                   !.before = manifest, !.cache_before = cache]
    /\ UNCHANGED <<manifest, cache>>

\* the external steps that can fail in one install run
FaultSets ==
    {{}, {"blobless", "clone"}, {"checkout", "fetch"}, {"checkout", "checkout_retry"}}
    \cup {{f} : f \in {"http", "size", "zip", "extract", "blobless", "rename",
                       "remote_add", "remote_set_url", "checkout", "fetch",
                       "submodule", "stash_push", "stash_pop", "stash_pop_conflict",
                       "stash_pop_conflict_stderr", "reset", "clean", "add", "commit",
                       "commit_nothing", "commit_nothing_stderr"}}

\* lines typed at the conflict prompt
Inputs ==
    {<<"s", "\n">>, <<" ", "D", "\n">>, <<"c", "\n">>, <<"k", "\n">>, <<"x", "\n">>,
     <<"s", "k", "i", "p", "\n">>}

\* lines typed as commit message
Messages == {<<"f", "i", "x", "\n">>, <<" ", "\n">>}

HasConflict ==
    LET r == compare_haxelib_to_hmm(manifest, cache)
    IN r.res = "ok" /\ \E i \in DOMAIN r.statuses : r.statuses[i].install_type = "Conflict"

\* the user is prompted only in a conflict, and asked for a message only
\* after choosing to commit; the repository holds at most one commit made
\* by the resolver
Environments ==
    {[faults |-> f, input |-> i, message |-> m] :
        f \in FaultSets,
        i \in IF HasConflict THEN Inputs ELSE {<<"k", "\n">>},
        m \in IF HasConflict THEN Messages ELSE {<<"f", "i", "x", "\n">>}}

CommitAllowed(o) ==
    \/ prompt_conflict_resolution(o.input) # "Commit"
    \/ \A k \in CacheKeys : CommitW \notin cache[k].git.objs

\* the cache a run r leaves, and what the run returned
InstallDone(r, o) ==
    /\ cache' = r.cache
    /\ last' = [LastNone EXCEPT !.op = "install", !.res = r.res,
                                !.statuses = r.statuses, !.results = r.results,
                                !.before = manifest, !.cache_before = cache,
                                !.env = o]
    /\ UNCHANGED manifest

\* `hmm install`: install_from_hmm
Install(o) ==
    /\ CommitAllowed(o)
    /\ prompt_conflict_resolution(o.input) # "Commit" => o.message = <<"f", "i", "x", "\n">>
    /\ InstallDone(install_from_hmm(manifest, cache, o), o)

\* the URLs of the remote-name runs: with and without scheme and user,
\* host ended by a slash or a colon, owner and repository in either case,
\* with and without the .git suffix or a trailing slash; and two URLs
\* without an owner
Urls ==
    {p \o h \o w \o <<"/">> \o r \o x :
        p \in {<<>>, Https, Http, Ssh \o GitAt, GitAt},
        h \in {<<"h", "/">>, <<"h", ":">>},
        w \in {<<"O">>, <<"o">>, <<"a">>},
        r \in {<<"R">>, <<"r">>, <<"b">>},
        x \in {<<>>, DotGit, <<"/">>}}
    \cup {<<"R">>, <<"h", ":", "R">>}

CloneFaults == {{}, {"rename"}, {"blobless"}, {"blobless", "clone"}}

InitClone ==
    /\ \E url \in Urls : manifest = <<Haxelib(NameB, "Git", None, None, Some(url), None)>>
    /\ cache = CacheOf({})
    /\ last = LastNone

\* what a clone r leaves: the repository and the name of its remote
CloneDone(r, faults) ==
    /\ cache' = r.cache
    /\ last' = [LastNone EXCEPT
                  !.op = "clone", !.res = r.res, !.before = manifest,
                  !.results = <<Processed("clone_blobless_git_repo", r.res, r.log)>>,
                  !.env = [NoEnv EXCEPT !.faults = faults],
                  !.remote =
                      IF r.res = "ok"
                      THEN Some(rename_origin_remote(
                               parse_remote_name_from_url(Unwrap(manifest[1].url)).name,
                               faults))
                      ELSE None]
    /\ UNCHANGED manifest

\* clone_blobless_git_repo for the first dependency of the manifest
Clone(faults) ==
    /\ last.op = "none"
    /\ manifest # <<>>
    /\ manifest[1].haxelib_type = "Git"
    /\ IsSome(manifest[1].url)
    /\ cache[name_as_commas(manifest[1])].git.st = "absent"
    /\ CloneDone(clone_blobless_git_repo(manifest[1], cache, faults), faults)

\* a clone made while the remote had no commit: HEAD on an unborn branch
EmptyClone ==
    [Git("repo", <<>>, FALSE, NoRefs, {}, "ok") EXCEPT !.on_branch = TRUE]

\* what the cache holds for the name given to git-add
GitAddEntries ==
    GitEntries \cup {Entry(TRUE, NoMarker, OkMarker(GitMarker), EmptyClone, {})}

\* the manifests git-add starts from: empty, another dependency, the
\* name as a registry dependency, the name as a git dependency after another
GitAddManifests ==
    {<<>>,
     <<Haxelib(NameA, "Haxelib", None, None, None, Some(V1))>>,
     <<Haxelib(NameB, "Haxelib", None, None, None, Some(V1))>>,
     <<Haxelib(NameB, "Git", Some(Tag), None, Some(Url1), None),
       Haxelib(NameA, "Haxelib", None, None, None, None)>>}

GitAddFaults == {{}, {"submodule"}, {"blobless", "clone"}, {"checkout", "fetch"}}

InitGitAdd ==
    /\ manifest \in GitAddManifests
    /\ \E e \in GitAddEntries :
         cache = CacheOf({<<Haxelib(NameB, "Git", None, None, Some(Url1), None), e>>})
    /\ last = LastNone

\* install_git saving the manifest whatever the install returned
GitAdded_saves_always(haxelib_install, r, create_ok, o) ==
    LET saved == save_json(retain_and_push(manifest, haxelib_install), manifest, create_ok)
    IN /\ cache' = r.cache
       /\ manifest' = saved.file
       /\ last' = [LastNone EXCEPT
                     !.op = "git", !.res = r.res, !.save = saved.res,
                     !.before = manifest,
                     !.statuses = <<HaxelibStatus(haxelib_install, "none", None, None)>>,
                     !.results = <<Processed("install_or_update_git_cli", r.res, r.log)>>,
                     !.cache_before = cache, !.env = o]

\* install_git after install_or_update_git_cli returned r
GitAdded(haxelib_install, r, create_ok, o) ==
    IF r.res # "ok"
    THEN /\ cache' = r.cache
         /\ last' = [LastNone EXCEPT
                       !.op = "git", !.res = r.res, !.before = manifest,
                       !.statuses = <<HaxelibStatus(haxelib_install, "none", None, None)>>,
                       !.results = <<Processed("install_or_update_git_cli", r.res, r.log)>>,
                       !.cache_before = cache, !.env = o]
         /\ UNCHANGED manifest
    ELSE LET saved == save_json(retain_and_push(manifest,
                                    with_detected_ref(haxelib_install, r.cache)),
                                manifest, create_ok)
         IN /\ cache' = r.cache
            /\ manifest' = saved.file
            /\ last' = [LastNone EXCEPT
                          !.op = "git", !.res = saved.res, !.save = saved.res,
                          !.before = manifest,
                          !.statuses = <<HaxelibStatus(haxelib_install, "none", None, None)>>,
                          !.results = <<Processed("install_or_update_git_cli", r.res, r.log)>>,
                          !.cache_before = cache, !.env = o]

\* `hmm git <name> <url> [ref]`: install_git
install_git(name, url, git_ref, o, create_ok) ==
    GitAdded(Haxelib(name, "Git", git_ref, None, Some(url), None),
             install_or_update_git_cli(Haxelib(name, "Git", git_ref, None, Some(url), None),
                                       cache, o),
             create_ok, o)

\* one git-add from an initial state
GitAdd(name, url, git_ref, o, create_ok) ==
    /\ last.op = "none"
    /\ install_git(name, url, git_ref, o, create_ok)

(***************************************************************************)
(* dev-add (dev_command.rs)                                                *)
(***************************************************************************)
\* the working directory of the run and the paths that exist on disk
Cwd == <<"/", "w">>
RelPath == <<"p">>
GonePath == <<"/", "x">>
ExistingPaths == {DevPath, Cwd \o <<"/">> \o RelPath}

\* Path::canonicalize: the absolute form of an existing path, an error for
\* a path that does not exist
canonicalize(path) ==
    LET absolute == IF path[1] = "/" THEN path ELSE Cwd \o <<"/">> \o path
    IN IF absolute \in ExistingPaths THEN [res |-> "ok", val |-> absolute]
       ELSE [res |-> "err", val |-> <<>>]

\* haxelib_dir.join(name): the cache entry dev-add writes, keyed by the
\* name as given
dev_lib_dir(name) == name

\* add_dev_dependency: the `.dev` file under the library directory, the new
\* entry pushed onto the dependencies, then save_json
add_dev_dependency(name, path, deps, file, c, create_ok) ==
    LET absolute_path == canonicalize(path)
        dev_haxelib == Haxelib(name, "Dev", None, Some(path), None, None)
        written == [c EXCEPT ![dev_lib_dir(name)].exists = TRUE,
                             ![dev_lib_dir(name)].dev = OkMarker(absolute_path.val)]
        saved == save_json(Append(deps, dev_haxelib), file, create_ok)
    IN IF absolute_path.res # "ok"
       THEN [res |-> "err", save |-> "none", cache |-> c, file |-> file]
       ELSE [res |-> saved.res, save |-> saved.res, cache |-> written,
             file |-> saved.file]

DevPaths == {DevPath, RelPath, GonePath}

\* `hmm dev <name> <path>`
DevAdd(name, path, create_ok) ==
    LET r == add_dev_dependency(name, path, manifest, manifest, cache, create_ok)
    IN /\ manifest' = r.file
       /\ cache' = r.cache
       /\ last' = [LastNone EXCEPT
                     !.op = "dev", !.res = r.res, !.save = r.save,
                     !.before = manifest, !.cache_before = cache,
                     !.statuses = <<HaxelibStatus(Haxelib(name, "Dev", None, Some(path),
                                                          None, None),
                                                  "none", None, None)>>]

(***************************************************************************)
(* save_json over orders of dependencies                                   *)
(***************************************************************************)
\* dependencies whose names differ in case only, or not at all
SaveDeps ==
    {Haxelib(<<"a">>, "Haxelib", None, None, None, Some(V1)),
     Haxelib(<<"A">>, "Haxelib", None, None, None, None),
     Haxelib(<<"a">>, "Dev", None, Some(DevPath), None, None),
     Haxelib(<<"B">>, "Git", Some(Branch), None, Some(Url1), None),
     Haxelib(NameB, "Haxelib", None, None, None, Some(V2)),
     Haxelib(NameZ, "Mecurial", None, None, None, None)}

\* the most dependencies in a list that is saved
MaxSaved == 3

SaveInputs ==
    {d \in UNION {[1..n -> SaveDeps] : n \in 0..MaxSaved} :
        \A i, j \in DOMAIN d : d[i] = d[j] => i = j}

\* the dependencies in memory (last.updated), the file not yet written
InitSave ==
    /\ manifest = <<>>
    /\ cache = CacheOf({})
    /\ \E d \in SaveInputs : last = [LastNone EXCEPT !.updated = d]

\* save_json(deps, path)
Save(create_ok) ==
    /\ last.op = "none"
    /\ LET saved == save_json(last.updated, manifest, create_ok)
       IN /\ manifest' = saved.file
          /\ last' = [last EXCEPT !.op = "save", !.res = saved.res,
                                  !.save = saved.res, !.before = manifest]
    /\ UNCHANGED cache

NextSave == \E create_ok \in BOOLEAN : Save(create_ok)

NextEval ==
    \/ \E i \in 1..2 : EvaluateStatus(i)
    \/ Check

NextLock ==
    \/ \E libs \in Selections, long_id \in BOOLEAN, create_ok \in BOOLEAN :
         Lock(libs, long_id, create_ok)
    \/ CheckLocked

NextClone == \E faults \in CloneFaults : Clone(faults)

NextGitAdd ==
    \E git_ref \in {None, Some(Branch), Some(Tag)}, faults \in GitAddFaults,
       create_ok \in BOOLEAN :
        GitAdd(NameB, Url1, git_ref, [NoEnv EXCEPT !.faults = faults], create_ok)

\* one install run from an initial state, then reconciliations
NextInstall ==
    \/ last.op = "none" /\ \E o \in Environments : Install(o)
    \/ last.op # "none" /\ Check

\* the most dependencies a manifest grows to
MaxDeps == 3

\* the cache the manifest commands start from: nothing, or the library
\* extracted from the registry
InitManifest ==
    /\ manifest \in GitAddManifests
    /\ \E e \in {NoEntry, Entry(TRUE, NoMarker, OkMarker(V1), NoGit, Extracted(V1))} :
         cache = CacheOf({<<Haxelib(NameB, "Haxelib", None, None, None, None), e>>})
    /\ last = LastNone

\* git-add, dev-add and lock in any order
NextManifest ==
    \/ \E git_ref \in {None, Some(Branch)}, faults \in {{}, {"submodule"}} :
           install_git(NameB, Url1, git_ref, [NoEnv EXCEPT !.faults = faults], TRUE)
    \/ /\ Len(manifest) < MaxDeps
       /\ \E name \in {NameA, NameB}, path \in DevPaths, create_ok \in BOOLEAN :
            DevAdd(name, path, create_ok)
    \/ \E libs \in {None, Some(<<NameB>>)} : Lock(libs, FALSE, TRUE)

Next ==
    \/ \E name \in {NameA, NameB}, path \in DevPaths, create_ok \in BOOLEAN :
         Len(manifest) < MaxDeps /\ DevAdd(name, path, create_ok)
    \/ \E i \in 1..2 : EvaluateStatus(i)
    \/ Check
    \/ \E libs \in Selections, long_id \in BOOLEAN, create_ok \in BOOLEAN :
         Lock(libs, long_id, create_ok)
    \/ CheckLocked
    \/ \E o \in Environments : Install(o)
    \/ \E faults \in CloneFaults : Clone(faults)
    \/ \E git_ref \in {None, Some(Branch), Some(Tag)}, faults \in GitAddFaults,
          create_ok \in BOOLEAN :
           GitAdd(NameB, Url1, git_ref, [NoEnv EXCEPT !.faults = faults], create_ok)

\* the status evaluator alone
SpecEval == Init /\ [][NextEval]_vars

\* the lock engine alone
SpecLock == InitLock /\ [][NextLock]_vars

\* install runs, each followed by any number of reconciliations
SpecInstall == Init /\ [][NextInstall]_vars

\* the clone of one git dependency, over the URL forms
SpecClone == InitClone /\ [][NextClone]_vars

\* one git-add, over what the cache and the manifest hold for the name
SpecGitAdd == InitGitAdd /\ [][NextGitAdd]_vars

\* the commands that write the manifest, from a manifest of unique names
SpecManifest == InitManifest /\ [][NextManifest]_vars

\* save_json alone, over the orders of the dependencies
SpecSave == InitSave /\ [][NextSave]_vars

Spec == Init /\ [][Next]_vars

(***************************************************************************)
(* Properties of the Status Evaluator, checked under SpecEval              *)
(***************************************************************************)
Evaluated == last.op = "evaluate"

EvalLib == last.before[last.idx]

EvalEntry == cache[Escape(EvalLib.name)]

EvalStatus == last.statuses[1]

\* the tag the classification table gives for (wrong commit, dirty tree)
C1_Table(wrong, dirty) ==
    CASE wrong /\ ~dirty -> "Outdated"
      [] wrong /\ dirty -> "Conflict"
      [] ~wrong /\ dirty -> "Conflict"
      [] OTHER -> "AlreadyInstalled"

\* C1: for a version-controlled dependency whose cache entry, marker and
\* repository exist and whose declared ref resolves to a commit (a named
\* reference first, else a commit-id prefix), the status is given by the
\* pair (head commit differs from the resolved commit, working tree dirty):
\* Outdated, Conflict, Conflict, AlreadyInstalled.
C1_ResolvedCommitTable ==
    (/\ Evaluated
     /\ EvalLib.haxelib_type = "Git"
     /\ EvalEntry.exists
     /\ current_file(EvalEntry).st = "ok"
     /\ EvalEntry.git.st = "repo"
     /\ IsSome(EvalLib.vcs_ref)
     /\ IsSome(git_rev_parse(EvalEntry.git, Unwrap(EvalLib.vcs_ref))))
    => /\ last.res = "ok"
       /\ EvalStatus.install_type =
            C1_Table(EvalEntry.git.head # Unwrap(git_rev_parse(EvalEntry.git, Unwrap(EvalLib.vcs_ref))),
                     EvalEntry.git.dirty)

\* C2: for a registry-hosted dependency with a declared version and a
\* readable marker the status is AlreadyInstalled exactly when the marker
\* content equals the declared version, and otherwise Outdated with
\* wanted = the declared version and installed = the marker content.
C2_ByteForByte ==
    (/\ Evaluated
     /\ EvalLib.haxelib_type = "Haxelib"
     /\ IsSome(EvalLib.version)
     /\ EvalEntry.exists
     /\ current_file(EvalEntry).st = "ok")
    => /\ last.res = "ok"
       /\ EvalStatus.install_type \in {"AlreadyInstalled", "Outdated"}
       /\ EvalStatus.install_type = "AlreadyInstalled"
            <=> current_file(EvalEntry).val = Unwrap(EvalLib.version)
       /\ EvalStatus.install_type = "Outdated"
            => /\ EvalStatus.wants = EvalLib.version
               /\ EvalStatus.installed = Some(current_file(EvalEntry).val)

\* a marker that differs from the declared version by a trailing line feed
\* only was evaluated
C2_Witness ==
    /\ Evaluated
    /\ EvalLib.haxelib_type = "Haxelib"
    /\ EvalLib.version = Some(V1)
    /\ current_file(EvalEntry) = OkMarker(V1nl)
    /\ EvalStatus.install_type = "Outdated"

\* the evaluation of dependency i on its own succeeds and can be printed
EvaluatesAlone(i) ==
    LET r == check_dependency(last.before[i], cache)
    IN r.res = "ok" /\ ~print_install_status_panics(r.st)

NoCrashAlone(i) ==
    LET r == check_dependency(last.before[i], cache)
    IN r.res # "panic" /\ (r.res = "ok" => ~print_install_status_panics(r.st))

\* C5: in a batch reconciliation in which no evaluation crashes, every
\* dependency whose own evaluation succeeds has its status returned, even
\* when the evaluation of another dependency ends in an error.
C5_ErrorIsolated ==
    (/\ last.op = "check"
     /\ \A i \in DOMAIN last.before : NoCrashAlone(i))
    => \A i \in DOMAIN last.before :
         EvaluatesAlone(i)
           => \E j \in DOMAIN last.statuses :
                last.statuses[j] = check_dependency(last.before[i], cache).st

\* C6: when the git subdirectory exists but is not a repository, the
\* evaluation of the dependency ends in an error.
C6_OpenFailureIsError ==
    (/\ Evaluated
     /\ EvalLib.haxelib_type = "Git"
     /\ EvalEntry.exists
     /\ current_file(EvalEntry).st = "ok"
     /\ EvalEntry.git.st = "notrepo")
    => last.res = "err"

\* C7: a reconciliation returns an error or one status per dependency, in
\* manifest order, each with one of the six tags; it never crashes.
C7_NeverCrashes ==
    last.op = "check"
    => /\ last.res \in {"ok", "err"}
       /\ last.res = "ok"
            => /\ Len(last.statuses) = Len(last.before)
               /\ \A i \in DOMAIN last.statuses :
                    /\ last.statuses[i].lib = last.before[i]
                    /\ last.statuses[i].install_type \in InstallType

(***************************************************************************)
(* Properties of the Lock Engine, checked under SpecLock                   *)
(***************************************************************************)
LockRan == last.op = "lock" /\ last.results # <<>>

Attempted(i) == last.results[i].kind # "NotSelected"

LockedCount == CountKind(last.results, {"Locked"})

ErrorCount == CountKind(last.results, {"Err"})

\* C8: locking a registry-hosted dependency reports AlreadyLocked and leaves
\* it unchanged when it declares a version; otherwise it sets the version to
\* the exact content of the cache's current marker, or ends in an error and
\* leaves it unchanged when the entry or the marker is absent.
C8_LockRegistry ==
    LockRan =>
      \A i \in DOMAIN last.results :
        (Attempted(i) /\ last.before[i].haxelib_type = "Haxelib")
        => LET lib == last.before[i]
               marker == cache[Escape(lib.name)].current
               r == last.results[i]
           IN /\ IsSome(lib.version)
                   => r.kind = "AlreadyLocked" /\ last.updated[i] = lib
              /\ (~IsSome(lib.version) /\ marker.st = "ok")
                   => /\ r.kind = "Locked"
                      /\ last.updated[i] = [lib EXCEPT !.version = Some(marker.val)]
              /\ (~IsSome(lib.version) /\ marker.st = "absent")
                   => r.kind = "Err" /\ last.updated[i] = lib

\* a marker ending in a line feed was copied as it is
C8_Witness ==
    /\ LockRan
    /\ \E i \in DOMAIN last.results :
         /\ last.before[i].haxelib_type = "Haxelib"
         /\ ~IsSome(last.before[i].version)
         /\ last.results[i].kind = "Locked"
         /\ last.updated[i].version = Some(V1nl)

IsPrefixOf(p, id) == Len(p) <= Len(id) /\ Take(id, Len(p)) = p

Unambiguous(p, id, objs) == \A o \in objs \ {id} : ~IsPrefixOf(p, o)

\* C9: locking a version-controlled dependency takes the head commit id of
\* the cached repository, in full with the long-id flag and otherwise as
\* its shortest unambiguous prefix of at least the default length; it
\* reports AlreadyLocked when the declared ref equals that text, otherwise
\* sets the ref to it, and ends in an error when the git directory is
\* absent.
C9_LockGit ==
    LockRan =>
      \A i \in DOMAIN last.results :
        (Attempted(i) /\ last.before[i].haxelib_type = "Git")
        => LET lib == last.before[i]
               repo == cache[Escape(lib.name)].git
               r == last.results[i]
           IN /\ repo.st = "absent" => r.kind = "Err" /\ last.updated[i] = lib
              /\ repo.st = "repo"
                   => /\ r.kind \in {"AlreadyLocked", "Locked"}
                      /\ IsPrefixOf(r.val, repo.head)
                      /\ last.long_id => r.val = repo.head
                      /\ ~last.long_id
                           => /\ Len(r.val) >= Min(AutoHexLen, IdLen)
                              /\ Unambiguous(r.val, repo.head, repo.objs)
                              /\ Len(r.val) > AutoHexLen
                                   => ~Unambiguous(Take(r.val, Len(r.val) - 1),
                                                   repo.head, repo.objs)
                      /\ r.kind = "AlreadyLocked" <=> lib.vcs_ref = Some(r.val)
                      /\ r.kind = "AlreadyLocked" => last.updated[i] = lib
                      /\ r.kind = "Locked"
                           => last.updated[i] = [lib EXCEPT !.vcs_ref = Some(r.val)]

\* a ref was set to a proper prefix of the head commit id
C9_Witness ==
    /\ LockRan
    /\ ~last.long_id
    /\ \E i \in DOMAIN last.results :
         /\ last.before[i].haxelib_type = "Git"
         /\ last.results[i].kind = "Locked"
         /\ Len(last.results[i].val) < IdLen
         /\ last.updated[i].vcs_ref = Some(last.results[i].val)

UnknownSelected ==
    /\ IsSome(last.libs)
    /\ \E k \in DOMAIN Unwrap(last.libs) :
         \A i \in DOMAIN last.before : last.before[i].name # Unwrap(last.libs)[k]

InstallRan == last.op = "install"

Range(f) == {f[i] : i \in DOMAIN f}

\* the backend action the dispatch table gives for a tag and a kind
C3_Action(tag, kind) ==
    CASE tag \in {"Missing", "MissingGit", "Outdated"} /\ kind = "Haxelib" ->
           "install_from_haxelib"
      [] tag \in {"Missing", "MissingGit", "Outdated"} /\ kind = "Git" ->
           "install_or_update_git_cli"
      [] tag \in {"Missing", "MissingGit", "Outdated"} -> "not_yet_implemented"
      [] tag = "Conflict" -> "handle_git_conflict"
      [] tag = "AlreadyInstalled" -> "nothing"
      [] OTHER -> "not_implemented"

\* C3: every processed status is dispatched by its tag: Missing, MissingGit
\* and Outdated go to the backend of the dependency's kind (the registry
\* download; the clone, when the repository is absent, followed by the
\* checkout of the declared ref; never a clone for Outdated), Conflict goes
\* to the Conflict Resolver, and for AlreadyInstalled and NotLocked no
\* backend command runs and the cache entry and the manifest stay as they
\* were.
C3_DispatchByTag ==
    InstallRan =>
      /\ manifest = last.before
      /\ \A i \in DOMAIN last.results :
           LET st == last.statuses[i]
               r == last.results[i]
               k == Escape(st.lib.name)
           IN /\ r.backend = C3_Action(st.install_type, st.lib.haxelib_type)
              /\ r.backend = "install_from_haxelib"
                   => r.log # <<>> /\ r.log[1] = "http_get"
              /\ (/\ r.backend = "install_or_update_git_cli"
                  /\ IsSome(st.lib.url)
                  /\ last.cache_before[k].git.st = "absent")
                   => /\ r.log # <<>> /\ r.log[1] = "clone_blobless"
                      /\ (r.res = "ok" /\ IsSome(st.lib.vcs_ref))
                           => "checkout" \in Range(r.log)
              /\ (r.backend = "install_or_update_git_cli" /\ st.install_type = "Outdated")
                   => "clone_blobless" \notin Range(r.log)
              /\ r.backend = "handle_git_conflict"
                   => r.log # <<>> /\ r.log[1] = "diff_stat"
              /\ st.install_type \in {"AlreadyInstalled", "NotLocked"}
                   => /\ r.log = <<>>
                      /\ r.res = "ok"
                      /\ cache[k] = last.cache_before[k]

\* a run that sent a Conflict to the resolver and then left a dependency
\* that is present but not locked alone
C3_Witness ==
    /\ InstallRan
    /\ \E i, j \in DOMAIN last.results :
         /\ last.statuses[i].install_type = "Conflict"
         /\ last.results[i].backend = "handle_git_conflict"
         /\ "checkout" \in Range(last.results[i].log)
         /\ last.statuses[j].install_type = "NotLocked"
         /\ last.results[j].log = <<>>

\* C4: when a backend fails for one dependency, every dependency of the
\* list is still processed and the run reports failure.
C4_FailureIsolated ==
    (InstallRan /\ \E i \in DOMAIN last.results : last.results[i].res = "err")
    => /\ Len(last.results) = Len(last.statuses)
       /\ last.res = "err"

\* a second lock run with the selection and the long-id flag of the first
SameLockAgain ==
    /\ last.op = "lock"
    /\ last'.op = "lock"
    /\ last'.libs = last.libs
    /\ last'.long_id = last.long_id

\* the second run locks nothing, reports what the first locked as already
\* locked and leaves the manifest as the first run left it
SecondRunLocksNothing ==
    /\ CountKind(last'.results, {"Locked"}) = 0
    /\ manifest' = manifest
    /\ \A i \in DOMAIN last.results :
         last.results[i].kind = "Locked"
         => \E j \in DOMAIN last'.results :
              /\ last'.results[j].lib.name = last.results[i].lib.name
              /\ last'.results[j].kind = "AlreadyLocked"

CheckedLocked == last.op = "check_locked"

\* locked by kind: a registry dependency with a version, a version-controlled
\* or legacy dependency with a ref, and every local-path dependency
C12_LockedByKind(lib) ==
    \/ lib.haxelib_type = "Haxelib" /\ lib.version # None
    \/ lib.haxelib_type \in {"Git", "Mecurial"} /\ lib.vcs_ref # None
    \/ lib.haxelib_type = "Dev"

\* C12: CheckLocked counts as locked the dependencies locked by kind,
\* reports locked + unlocked = the number of dependencies, fails exactly
\* when a dependency is unlocked, and changes neither manifest nor cache.
C12_CheckLocked ==
    CheckedLocked =>
      /\ last.locked_count
           = Cardinality({i \in DOMAIN manifest : C12_LockedByKind(manifest[i])})
      /\ last.locked_count + last.unlocked = Len(manifest)
      /\ last.res = "err" <=> \E i \in DOMAIN manifest : ~C12_LockedByKind(manifest[i])
      /\ manifest = last.before
      /\ cache = last.cache_before

\* a check that failed on a legacy dependency without ref and counted a
\* second dependency as locked
C12_Witness ==
    /\ CheckedLocked
    /\ last.res = "err"
    /\ last.locked_count = 1
    /\ last.unlocked = 1
    /\ \E i \in DOMAIN manifest :
         manifest[i].haxelib_type = "Mecurial" /\ manifest[i].vcs_ref = None

\* a check of the manifest a successful lock run over all dependencies left
CheckAfterLockAll ==
    /\ last.op = "lock"
    /\ last.libs = None
    /\ last.res = "ok"
    /\ last'.op = "check_locked"

\* a registry dependency without version and with a readable current marker
\* was unlocked before the run and is locked after it, its version the
\* content of the marker
C13_RegistryLocked ==
    \A i \in DOMAIN last.before :
      (/\ last.before[i].haxelib_type = "Haxelib"
       /\ last.before[i].version = None
       /\ cache[Escape(last.before[i].name)].current.st = "ok")
      => /\ is_locked(last.before[i]) = "NotLocked"
         /\ \E j \in DOMAIN manifest :
              /\ manifest[j].name = last.before[i].name
              /\ manifest[j].version
                   = Some(cache[Escape(last.before[i].name)].current.val)
              /\ is_locked(manifest[j]) = "Locked"

\* C13 as stated: after a lock run over all dependencies that returns
\* success, CheckLocked reports every dependency locked and succeeds, and a
\* registry dependency without version and with a populated cache went from
\* unlocked to locked with the marker content as version.
C13_AsStated ==
    [][CheckAfterLockAll
         => /\ last'.res = "ok"
            /\ last'.locked_count = Len(manifest)
            /\ C13_RegistryLocked]_vars

\* C13 amended: the same, for every dependency but a legacy one without
\* ref, which the lock run skips and CheckLocked reports unlocked.
C13_LockThenCheck ==
    [][CheckAfterLockAll
         => /\ last'.unlocked
                 = Cardinality({i \in DOMAIN manifest :
                                  /\ manifest[i].haxelib_type = "Mecurial"
                                  /\ manifest[i].vcs_ref = None})
            /\ last'.res = "ok" <=> last'.unlocked = 0
            /\ C13_RegistryLocked]_vars

\* a check succeeded on a manifest whose version only a lock run can have
\* written
C13_Witness ==
    /\ CheckedLocked
    /\ last.res = "ok"
    /\ \E i \in DOMAIN manifest :
         /\ manifest[i].haxelib_type = "Haxelib"
         /\ manifest[i].version = Some(V1nl)
         /\ cache[Escape(manifest[i].name)].current = OkMarker(V1nl)

(***************************************************************************)
(* Properties of the backends and of the Conflict Resolver, checked under  *)
(* SpecInstall                                                             *)
(***************************************************************************)
\* the positions of command x in a log
At(log, x) == {n \in DOMAIN log : log[n] = x}

RemoteCommands == {"remote_add", "remote_set_url", "fetch"}

\* C14: smart-checkout attempts the checkout first; it adds or repairs the
\* remote and fetches only after that attempt failed, retries the checkout
\* once, and ends in an error when the fetch or the second checkout fails;
\* a run whose first checkout succeeds neither touches the remote nor
\* fetches.
C14_CheckoutFirst ==
    InstallRan =>
      \A i \in DOMAIN last.results :
        LET log == last.results[i].log
        IN /\ \A n \in DOMAIN log :
                log[n] \in RemoteCommands => \E m \in At(log, "checkout") : m < n
           /\ (At(log, "checkout") # {} /\ At(log, "checkout_retry") = {}
               /\ last.results[i].res = "ok")
                => \A n \in DOMAIN log : log[n] \notin RemoteCommands
           /\ Cardinality(At(log, "checkout_retry")) <= 1
           /\ (At(log, "fetch") # {} /\ At(log, "checkout_retry") = {})
                => last.results[i].res = "err"

\* the commands of the update path
UpdateCommands ==
    {"clone_blobless", "clone_full", "remote_rename", "write_current",
     "remote_get_url", "remote_add", "remote_set_url", "checkout", "fetch",
     "checkout_retry", "submodule"}

\* the positions of the update commands in a log
Updates(log) == {n \in DOMAIN log : log[n] \in UpdateCommands}

\* the commands of a strategy that precede its update
Before(choice) ==
    CASE choice = "Stash" -> <<"stash_push">>
      [] choice = "Discard" -> <<"reset", "clean">>
      [] choice = "Commit" -> <<"read_message", "add", "commit">>
      [] OTHER -> <<>>

\* the faults that make a step preceding the update fail
FailsBefore(choice) ==
    CASE choice = "Stash" -> {"stash_push"}
      [] choice = "Discard" -> {"reset", "clean"}
      [] choice = "Commit" -> {"add", "commit", "commit_nothing"}
      [] OTHER -> {}

Choice == prompt_conflict_resolution(last.env.input)

\* the results of the conflicts the resolver was given
Resolved == {i \in DOMAIN last.results : last.results[i].backend = "handle_git_conflict"}

\* the log of a resolver run after the diff and the prompt
Steps(i) == SubSeq(last.results[i].log, 3, Len(last.results[i].log))

IsPrefix(p, q) == Len(p) <= Len(q) /\ SubSeq(q, 1, Len(p)) = p

\* C15: the resolver runs the commands of the chosen strategy in order:
\* stash-push, update, stash-pop; reset, clean, update; read message, add,
\* commit, update. The update starts only after every command before it
\* ran and none of them failed, and the stash-pop comes last.
C15_StrategyOrder ==
    InstallRan =>
      \A i \in Resolved :
        LET log == Steps(i)
            pre == Before(Choice)
        IN /\ IsPrefix(pre, log) \/ IsPrefix(log, pre)
           /\ \A n \in DOMAIN log :
                n > Len(pre) => log[n] \in UpdateCommands \cup {"stash_pop"}
           /\ Updates(log) # {}
                => /\ IsPrefix(pre, log)
                   /\ last.env.faults \cap FailsBefore(Choice) = {}
                   /\ Choice = "Commit" => trim(last.env.message) # <<>>
           /\ \A n \in DOMAIN log :
                log[n] = "stash_pop"
                => /\ Choice = "Stash"
                   /\ n = Len(log)
                   /\ Updates(log) # {}

\* a Discard that reset, cleaned and then checked out the declared ref
C15_Witness ==
    /\ InstallRan
    /\ Choice = "Discard"
    /\ \E i \in Resolved :
         /\ IsPrefix(<<"reset", "clean">>, Steps(i))
         /\ "checkout" \in Range(Steps(i))
         /\ last.results[i].res = "ok"

\* the resolver runs whose stash-pop was run
Popped == {i \in Resolved : "stash_pop" \in Range(Steps(i))}

\* the stash-pop ended in merge conflicts, wherever git wrote the notice
PopConflicts ==
    last.env.faults \cap {"stash_pop_conflict", "stash_pop_conflict_stderr"} # {}

\* C16: in the Stash strategy a stash-pop that ends in merge conflicts is
\* a warning and the resolver returns success, and a stash-pop that fails
\* for any other reason is an error.
C16_PopConflictIsWarning ==
    InstallRan =>
      \A i \in Popped :
        /\ PopConflicts => last.results[i].res = "ok"
        /\ "stash_pop" \in last.env.faults => last.results[i].res = "err"

\* the cache entry of the i-th dependency of the run
EntryOf(c, i) == get_lib_path_entry(c, last.statuses[i].lib.name)

\* C17: in the Commit strategy an empty or whitespace-only message is an
\* error for that dependency alone: nothing is staged or committed, no
\* update runs, its repository stays as it was, and every dependency of
\* the run is still processed.
C17_EmptyMessageIsolated ==
    (InstallRan /\ Choice = "Commit" /\ trim(last.env.message) = <<>>)
    => \A i \in Resolved :
         /\ last.results[i].res = "err"
         /\ Steps(i) = <<"read_message">>
         /\ EntryOf(cache, i) = EntryOf(last.cache_before, i)
         /\ Len(last.results) = Len(last.statuses)

\* the resolver runs whose commit was run, for a dependency with a url
Committed ==
    {i \in Resolved : /\ "commit" \in Range(Steps(i))
                      /\ IsSome(last.statuses[i].lib.url)}

\* git had nothing to commit, wherever it wrote the notice
NothingToCommit ==
    last.env.faults \cap {"commit_nothing", "commit_nothing_stderr"} # {}

\* C18: in the Commit strategy a commit that ends with "nothing to commit"
\* counts as success and the update follows it as after a commit that was
\* made; any other failure of the commit is an error and no update runs.
C18_NothingToCommitIsSuccess ==
    InstallRan =>
      \A i \in Committed :
        /\ NothingToCommit => Updates(Steps(i)) # {}
        /\ "commit" \in last.env.faults
             => /\ last.results[i].res = "err"
                /\ Updates(Steps(i)) = {}

\* the answers that select a strategy other than Skip
Acting ==
    {<<"s">>, <<"s", "t", "a", "s", "h">>, <<"d">>, <<"d", "i", "s", "c", "a", "r", "d">>,
     <<"c">>, <<"c", "o", "m", "m", "i", "t">>}

\* the number of prompts of a resolver run
Prompts(i) ==
    Cardinality({n \in DOMAIN last.results[i].log : last.results[i].log[n] = "prompt"})

\* C19: the resolver prompts once for a conflicted dependency; on Skip
\* and on every answer that is not s/stash, d/discard, c/commit after
\* trimming and lower-casing, it runs no command on the repository,
\* leaves the cache entry as it was and returns success.
C19_SkipDoesNothing ==
    InstallRan =>
      \A i \in Resolved :
        /\ Prompts(i) = 1
        /\ to_lowercase(trim(last.env.input)) \notin Acting
             => /\ last.results[i].log = <<"diff_stat", "prompt">>
                /\ last.results[i].res = "ok"
                /\ EntryOf(cache, i) = EntryOf(last.cache_before, i)

\* an answer that is no choice at all, given for a repository with local
\* changes, which still has them after the run
C19_Witness ==
    /\ InstallRan
    /\ to_lowercase(trim(last.env.input)) = <<"x">>
    /\ \E i \in Resolved :
         /\ last.results[i].res = "ok"
         /\ EntryOf(cache, i).git.dirty
         /\ last.res = "ok"

\* the git dependencies with a declared ref that a successful run
\* installed into an empty cache
FreshGitInstalls ==
    {i \in DOMAIN last.results :
        /\ last.statuses[i].lib.haxelib_type = "Git"
        /\ IsSome(last.statuses[i].lib.vcs_ref)
        /\ EntryOf(last.cache_before, i) = NoEntry
        /\ last.results[i].res = "ok"}

\* ensure-repository, then the checkout of the declared ref, then the
\* submodule update
CloneCheckoutSubmodule(log) ==
    /\ At(log, "clone_blobless") # {}
    /\ At(log, "checkout") # {}
    /\ At(log, "submodule") # {}
    /\ \A n \in At(log, "clone_blobless") \cup At(log, "clone_full"),
          m \in At(log, "checkout") \cup At(log, "checkout_retry") : n < m
    /\ \A m \in At(log, "checkout") \cup At(log, "checkout_retry"),
          q \in At(log, "submodule") : m < q

\* the evaluation after the run reports the i-th dependency installed at
\* its declared ref, as wanted and as installed version
EvaluatedAtRef(i) ==
    /\ i \in DOMAIN last'.statuses
    /\ last'.statuses[i].install_type = "AlreadyInstalled"
    /\ last'.statuses[i].wants = last.statuses[i].lib.vcs_ref
    /\ last'.statuses[i].installed = last.statuses[i].lib.vcs_ref

\* C20: a git dependency with a declared ref and an empty cache: a
\* successful install clones, checks the declared ref out and updates the
\* submodules, in that order, and the evaluation after it yields
\* AlreadyInstalled with the declared ref as wanted and as installed.
C20_InstallThenEvaluate ==
    [][(InstallRan /\ last.res = "ok" /\ last'.op = "check")
       => \A i \in FreshGitInstalls :
            /\ CloneCheckoutSubmodule(last.results[i].log)
            /\ EvaluatedAtRef(i)]_vars

\* C21: a version-controlled dependency whose cache directory is absent
\* evaluates to MissingGit, whatever ref it declares.
C21_AbsentIsMissingGit ==
    (Evaluated /\ EvalLib.haxelib_type = "Git" /\ ~EvalEntry.exists)
    => /\ last.res = "ok"
       /\ EvalStatus.install_type = "MissingGit"

\* a registry, local-path or legacy dependency whose escaped cache path
\* does not exist was evaluated
AbsentPlain ==
    /\ Evaluated
    /\ EvalLib.haxelib_type \in {"Haxelib", "Dev", "Mecurial"}
    /\ ~EvalEntry.exists

MissingWanting(w) ==
    /\ last.res = "ok"
    /\ EvalStatus.install_type = "Missing"
    /\ EvalStatus.installed = None
    /\ EvalStatus.wants = w

ReadMarker == IF EvalEntry.dev.st # "absent" THEN EvalEntry.dev ELSE EvalEntry.current

\* C23: a registry dependency that declares no version and whose cache
\* entry has a readable marker evaluates to NotLocked with the marker's
\* contents as installed and nothing wanted.
C23_NotLocked ==
    (/\ Evaluated
     /\ EvalLib.haxelib_type = "Haxelib"
     /\ EvalLib.version = None
     /\ EvalEntry.exists
     /\ ReadMarker.st = "ok")
    => /\ last.res = "ok"
       /\ EvalStatus.install_type = "NotLocked"
       /\ EvalStatus.installed = Some(ReadMarker.val)
       /\ EvalStatus.wants = None

\* a registry dependency without version whose marker ends in a newline
C23_Witness ==
    /\ Evaluated
    /\ EvalLib.haxelib_type = "Haxelib"
    /\ EvalLib.version = None
    /\ EvalEntry.current = OkMarker(V1nl)
    /\ EvalStatus.install_type = "NotLocked"
    /\ EvalStatus.installed = Some(V1nl)

\* C24: with an existing cache entry the evaluator reads .dev when it is
\* there and .current otherwise; when that marker cannot be read the
\* status is Missing, for every kind.
C24_UnreadableIsMissing ==
    (Evaluated /\ EvalEntry.exists)
    => /\ ReadMarker.st # "ok"
            => /\ last.res = "ok"
               /\ EvalStatus.install_type = "Missing"
       /\ (ReadMarker.st = "ok" /\ EvalLib.haxelib_type \in {"Dev", "Mecurial"})
            => EvalStatus.wants = Some(ReadMarker.val)

\* C25: a local-path dependency whose cache entry has a marker evaluates
\* to AlreadyInstalled, whatever the marker holds and whatever the
\* manifest declares for it.
C25_DevAlwaysInstalled ==
    (/\ Evaluated
     /\ EvalLib.haxelib_type = "Dev"
     /\ EvalEntry.exists
     /\ ReadMarker.st # "absent")
    => /\ last.res = "ok"
       /\ EvalStatus.install_type = "AlreadyInstalled"

\* the dependencies of an unsupported kind that the run found not
\* installed
Unsupported ==
    {i \in DOMAIN last.before :
        /\ last.before[i].haxelib_type \in {"Dev", "Mecurial"}
        /\ LET e == get_lib_path_entry(last.cache_before, last.before[i].name)
           IN ~e.exists \/ (e.dev.st = "absent" /\ e.current.st = "absent")}

\* C26: in an install run a local-path or legacy dependency that needs
\* installing gets the "not yet implemented" notice and is skipped: no
\* backend command runs for it, no error is raised and the run goes on
\* with the next dependency.
C26_UnsupportedSkipped ==
    InstallRan =>
      \A i \in Unsupported :
        /\ last.res # "panic"
        /\ i \in DOMAIN last.results
        /\ last.results[i].backend = "not_yet_implemented"
        /\ last.results[i].res = "ok"
        /\ last.results[i].log = <<>>
        /\ i < Len(last.before) => i + 1 \in DOMAIN last.results

\* the runs of the git backend, alone or under the conflict resolver
GitRuns ==
    {i \in DOMAIN last.results :
        last.results[i].backend \in {"install_or_update_git_cli", "handle_git_conflict"}}

Clones(log) == At(log, "clone_blobless") \cup At(log, "clone_full")

\* C27: the git backend clones when the git subdirectory is absent and
\* only then; the blob-less clone comes first and, when it fails, one full
\* clone follows it; the run ends in a clone error only when both failed.
C27_CloneOnce ==
    InstallRan =>
      \A i \in GitRuns :
        LET log == last.results[i].log
            absent == EntryOf(last.cache_before, i).git.st = "absent"
            url == IsSome(last.statuses[i].lib.url)
            blobless == "blobless" \in last.env.faults
            clone == "clone" \in last.env.faults
        IN /\ ~absent => Clones(log) = {}
           /\ (absent /\ url) => At(log, "clone_blobless") = {1}
           /\ (absent /\ url /\ blobless) => At(log, "clone_full") = {2}
           /\ ~blobless => At(log, "clone_full") = {}
           /\ (absent /\ url /\ blobless /\ clone)
                => log = <<"clone_blobless", "clone_full">> /\ last.results[i].res = "err"
           /\ (Clones(log) # {} /\ ~(blobless /\ clone)) => "remote_rename" \in Range(log)

\* a blob-less clone that failed, followed by a full clone and an install
\* that succeeded
C27_Witness ==
    /\ InstallRan
    /\ \E i \in GitRuns :
         /\ SubSeq(last.results[i].log, 1, 3) = <<"clone_blobless", "clone_full", "remote_rename">>
         /\ last.results[i].res = "ok"
         /\ EntryOf(cache, i).git.st = "repo"

\* a clone that succeeded and renamed the default remote
Cloned ==
    /\ last.op = "clone"
    /\ last.res = "ok"
    /\ "rename" \notin last.env.faults

\* the last two path segments of the dependency URL, as parsed
OwnerRepo == parse_remote_name_from_url(Unwrap(last.before[1].url)).name

\* C28: after a successful clone the default remote has the name
\* owner/repo from the last two path segments of the URL, lower-cased,
\* for every URL the parser accepts.
C28_RemoteLowerCased ==
    Cloned => last.remote = Some(to_lowercase(OwnerRepo))

Checkouts(log) == At(log, "checkout") \cup At(log, "checkout_retry")

\* the repository of the i-th dependency has HEAD at its declared ref
AtDeclaredRef(i) ==
    LET repo == EntryOf(cache, i).git
        target_ref == Unwrap(last.statuses[i].lib.vcs_ref)
    IN /\ IsSome(git_rev_parse(repo, target_ref))
       /\ repo.head = Unwrap(git_rev_parse(repo, target_ref))

\* C29: in every git install or update the submodule update runs right
\* after a checkout that succeeded and never after one that failed, it
\* runs once, and the run succeeds only when the submodule update
\* succeeded; a submodule update that fails fails the install.
C29_SubmodulesAfterCheckout ==
    InstallRan =>
      \A i \in GitRuns :
        LET log == last.results[i].log
            sub == At(log, "submodule")
        IN /\ Cardinality(sub) <= 1
           /\ \A n \in sub : \A m \in Checkouts(log) : m < n
           /\ (sub # {} /\ IsSome(last.statuses[i].lib.vcs_ref))
                => /\ Checkouts(log) # {}
                   /\ AtDeclaredRef(i)
                   /\ ~({"checkout", "fetch"} \subseteq last.env.faults)
                   /\ ~({"checkout", "checkout_retry"} \subseteq last.env.faults)
           /\ (Checkouts(log) # {} /\ sub = {}) => last.results[i].res = "err"
           /\ (sub # {} /\ "submodule" \in last.env.faults)
                => /\ last.results[i].res = "err"
                   /\ log[Len(log)] = "submodule"
           /\ (last.results[i].res = "ok" /\ Updates(log) # {})
                => sub # {} /\ "submodule" \notin last.env.faults

\* a checkout that succeeded, followed by a submodule update that failed
\* and an install that failed with it
C29_Witness ==
    /\ InstallRan
    /\ "submodule" \in last.env.faults
    /\ \E i \in GitRuns :
         /\ At(last.results[i].log, "checkout") # {}
         /\ AtDeclaredRef(i)
         /\ last.results[i].log[Len(last.results[i].log)] = "submodule"
         /\ last.results[i].res = "err"

\* a git-add without a ref that succeeded
AddedWithoutRef ==
    /\ last.op = "git"
    /\ last.res = "ok"
    /\ last.statuses[1].lib.vcs_ref = None

\* the entries of the manifest with the name given to git-add
Added == {i \in DOMAIN manifest : manifest[i].name = last.statuses[1].lib.name}

\* the branch that is checked out, or the commit id when HEAD is detached
CheckedOut(repo) == IF repo.on_branch THEN Branch ELSE repo.head

\* C30: without a declared ref the git install checks nothing out and
\* leaves the repository on the branch it is on, for a new clone the
\* remote's default branch; after a git-add without a ref that succeeded
\* the manifest has one entry of that name, whose ref is not empty and is
\* the branch that is checked out or, with a detached HEAD, the commit id.
C30_RefWrittenBack ==
    AddedWithoutRef =>
      LET repo == EntryOf(cache, 1).git
          was == EntryOf(last.cache_before, 1).git
      IN /\ Checkouts(last.results[1].log) = {}
         /\ was.st = "absent" => repo = [ClonedRepo EXCEPT !.remote = "ok"]
         /\ was.st # "absent" => repo = was
         /\ Cardinality(Added) = 1
         /\ \A i \in Added :
              /\ manifest[i].haxelib_type = "Git"
              /\ IsSome(manifest[i].vcs_ref)
              /\ Unwrap(manifest[i].vcs_ref) # <<>>
              /\ Unwrap(manifest[i].vcs_ref) = CheckedOut(repo)

(***************************************************************************)
(* C31: one cache directory per dependency name                            *)
(***************************************************************************)
\* a dev-add that got past the canonicalisation of its path
DevAdded == last.op = "dev" /\ last.save # "none"

DevLib == last.statuses[1].lib

\* the cache keys other than the escaped form of a name
OtherKeys(name) == CacheKeys \ {Escape(name)}

\* C31: every command that writes the cache entry of a dependency writes
\* the directory named by the dependency name with each '.' replaced by
\* ',', the one the status evaluator inspects, and no other directory:
\* after a dev-add the `.dev` marker is in that directory, and git-add and
\* dev-add leave every other directory as it was.
C31_SameCacheEntry ==
    /\ DevAdded =>
         /\ get_lib_path_entry(cache, DevLib.name).dev
              = OkMarker(canonicalize(Unwrap(DevLib.path)).val)
         /\ \A k \in OtherKeys(DevLib.name) : cache[k] = last.cache_before[k]
    /\ last.op = "git" =>
         \A k \in OtherKeys(last.statuses[1].lib.name) : cache[k] = last.cache_before[k]

(***************************************************************************)
(* C32: the saved manifest is sorted by lower-cased name, stably           *)
(***************************************************************************)
Saved == last.op = "save" /\ last.save = "ok"

\* where a dependency of the input is in the saved manifest
SavedAt(d) == CHOOSE i \in DOMAIN manifest : manifest[i] = d

LowerName(d) == to_lowercase(d.name)

\* C32: a save writes the dependencies ordered by name without regard to
\* case, whatever the order of the input; dependencies whose names are
\* equal without regard to case keep their relative order; the entries
\* written, with their fields, are those of the input.
C32_SavedSorted ==
    Saved =>
      /\ Len(manifest) = Len(last.updated)
      /\ Range(manifest) = Range(last.updated)
      /\ \A i, j \in DOMAIN manifest :
           i < j => ~StrLess(LowerName(manifest[j]), LowerName(manifest[i]))
      /\ \A i, j \in DOMAIN manifest :
           manifest[i].name \in {<<"a">>, <<"A">>} /\ manifest[j].name = <<"B">> => i < j
      /\ \A i, j \in DOMAIN last.updated :
           i < j /\ LowerName(last.updated[i]) = LowerName(last.updated[j])
             => SavedAt(last.updated[i]) < SavedAt(last.updated[j])

\* saved from an input that had "B" first and "A" before "a"
C32_Witness ==
    /\ Saved
    /\ Len(last.updated) = 3
    /\ last.updated[1].name = <<"B">>
    /\ last.updated[2].name = <<"A">>
    /\ last.updated[3].name = <<"a">>
    /\ manifest # last.updated

(***************************************************************************)
(* C33: one manifest entry per name                                        *)
(***************************************************************************)
\* C33: starting from a manifest with one entry per name, after any
\* sequence of git-add, dev-add and lock, adding a name that is already
\* present included, the manifest has at most one entry per name.
C33_UniqueNames ==
    \A i, j \in DOMAIN manifest : manifest[i].name = manifest[j].name => i = j

(***************************************************************************)
(* C34: what a lock run changes                                            *)
(***************************************************************************)
\* the dependency is among those the run was asked to lock
Selected(i) ==
    \/ ~IsSome(last.libs)
    \/ \E k \in DOMAIN Unwrap(last.libs) : Unwrap(last.libs)[k] = last.before[i].name

\* the fields of a dependency other than version and vcs_ref
Identity(d) == <<d.name, d.haxelib_type, d.url, d.path, d.dir>>

\* C34: a lock run changes nothing but the version of selected registry
\* dependencies and the ref of selected git dependencies: local-path and
\* legacy dependencies are reported skipped and stay as they are, a
\* dependency that is not selected stays as it is, name, kind, url, path
\* and dir never change, and without a selection every dependency is a
\* candidate; the manifest afterwards holds the dependencies so updated, or
\* is as before.
C34_LockFrame ==
    LockRan =>
      /\ \A i \in DOMAIN last.before :
           LET was == last.before[i]
               now == last.updated[i]
           IN /\ Identity(now) = Identity(was)
              /\ Attempted(i) <=> Selected(i)
              /\ ~Selected(i) => now = was
              /\ was.haxelib_type \in {"Dev", "Mecurial"} =>
                   /\ now = was
                   /\ Selected(i) => last.results[i].kind = "Skipped"
              /\ was.haxelib_type = "Haxelib" => now.vcs_ref = was.vcs_ref
              /\ was.haxelib_type = "Git" => now.version = was.version
              /\ now # was => last.results[i].kind = "Locked"
      /\ Len(last.updated) = Len(last.before)
      /\ \/ manifest = last.before
         \/ /\ Range(manifest) = Range(last.updated)
            /\ Len(manifest) = Len(last.updated)

\* a run over two dependencies that selected the local-path one only:
\* skipped, and the manifest as before
C34_Witness ==
    /\ LockRan
    /\ Len(last.before) = 2
    /\ last.libs = Some(<<NameB>>)
    /\ last.before[1].haxelib_type = "Dev"
    /\ last.results[1].kind = "Skipped"
    /\ ~Attempted(2)
    /\ manifest = last.before

\* a run without a selection that pinned a git dependency and a registry one
C34_WitnessAll ==
    /\ LockRan
    /\ ~IsSome(last.libs)
    /\ Len(last.before) = 2
    /\ last.before[1].haxelib_type = "Git"
    /\ \A i \in 1..2 : last.results[i].kind = "Locked"
    /\ last.save = "ok"

(***************************************************************************)
(* C35: a failed registry install is not taken for an installation         *)
(***************************************************************************)
\* the registry installs of the run that ended in an error
FailedRegistryInstalls ==
    {i \in DOMAIN last.results :
        /\ last.results[i].backend = "install_from_haxelib"
        /\ last.results[i].res = "err"}

\* the evaluation of the i-th dependency of the run against the cache
Reevaluated(i) == check_dependency(last.statuses[i].lib, cache)

\* the current marker names a version whose directory is not complete
MarkedIncomplete(e) ==
    /\ e.current.st = "ok"
    /\ <<Escape(e.current.val), TRUE>> \notin e.dirs

\* C35: a registry install that fails at any step leaves a cache in which
\* the dependency does not evaluate to AlreadyInstalled, and the current
\* marker names a version only when that version's directory was
\* extracted completely.
C35_FailedInstallNotInstalled ==
    InstallRan =>
      \A i \in FailedRegistryInstalls :
        /\ ~(Reevaluated(i).res = "ok"
             /\ Reevaluated(i).st.install_type = "AlreadyInstalled")
        /\ ~MarkedIncomplete(EntryOf(cache, i))

(***************************************************************************)
(* C36: install converges                                                  *)
(***************************************************************************)
\* an install run that returned Ok and met no conflict
InstalledWithoutConflict ==
    /\ InstallRan
    /\ last.res = "ok"
    /\ \A i \in DOMAIN last.statuses : last.statuses[i].install_type # "Conflict"

\* C36: after an install run that succeeded and met no conflict, the
\* evaluation of every registry and git dependency against the cache it
\* left yields AlreadyInstalled or NotLocked, whatever the cache held
\* before, a git directory without current marker included.
C36_InstallConverges ==
    InstalledWithoutConflict =>
      \A i \in DOMAIN last.statuses :
        last.statuses[i].lib.haxelib_type \in {"Haxelib", "Git"} =>
          /\ Reevaluated(i).res = "ok"
          /\ Reevaluated(i).st.install_type \in {"AlreadyInstalled", "NotLocked"}

(***************************************************************************)
(* C37: a stash is always restored                                         *)
(***************************************************************************)
\* the resolver runs whose stash-push ran and did not fail
Pushed ==
    {i \in Resolved :
        /\ Choice = "Stash"
        /\ "stash_push" \in Range(Steps(i))
        /\ "stash_push" \notin last.env.faults}

\* C37: in the Stash strategy every stash-push that succeeded is followed,
\* in the same resolver run, by a stash-pop attempt, also when the update
\* between the two fails: no run returns with the changes stashed.
C37_StashRestored ==
    InstallRan =>
      \A i \in Pushed :
        \E n \in At(Steps(i), "stash_pop") :
          \A m \in At(Steps(i), "stash_push") : m < n

(***************************************************************************)
(* C38: the status tags a kind of dependency can get                       *)
(***************************************************************************)
\* the relation between the tag of a status and the dependency it is about
TagRespectsKind(st) ==
    /\ st.install_type \in {"Conflict", "MissingGit"} => st.lib.haxelib_type = "Git"
    /\ st.install_type = "NotLocked" =>
         st.lib.haxelib_type = "Haxelib" /\ ~IsSome(st.lib.version)
    /\ st.install_type = "Outdated" => st.lib.haxelib_type \in {"Haxelib", "Git"}

\* C38: every status the evaluator produces has a tag its dependency's
\* kind allows: Conflict and MissingGit for git dependencies only,
\* NotLocked for registry dependencies without declared version only,
\* Outdated for registry and git dependencies only; and the conflict
\* resolver is given git dependencies in Conflict only, with the wanted
\* and the installed descriptor both present.
C38_TagRespectsKind ==
    /\ \A i \in DOMAIN last.statuses : TagRespectsKind(last.statuses[i])
    /\ InstallRan =>
         \A i \in Resolved :
           /\ last.statuses[i].install_type = "Conflict"
           /\ last.statuses[i].lib.haxelib_type = "Git"
           /\ IsSome(last.statuses[i].wants)
           /\ IsSome(last.statuses[i].installed)

\* an install run over a git dependency in Conflict, given to the resolver,
\* and a registry dependency without declared version, NotLocked
C38_Witness ==
    /\ InstallRan
    /\ Len(last.statuses) = 2
    /\ Resolved = {1}
    /\ last.statuses[1].install_type = "Conflict"
    /\ last.statuses[2].install_type = "NotLocked"
    /\ last.statuses[2].lib.haxelib_type = "Haxelib"

(***************************************************************************)
(* C39: lock, then evaluate                                                *)
(***************************************************************************)
\* the dependencies the lock run pinned and saved
Pinned ==
    {i \in DOMAIN last.results : last.results[i].kind = "Locked" /\ last.save = "ok"}

\* the evaluation of a pinned dependency, as saved, against the cache
PinnedStatus(i) == check_dependency(last.updated[i], cache)

\* C39: right after a lock run pinned a dependency, its evaluation against
\* the unchanged cache yields AlreadyInstalled: for a registry dependency,
\* and for a git dependency with a clean working tree whether the id
\* written is the short or the full one.
C39_LockThenEvaluate ==
    LockRan =>
      \A i \in Pinned :
        (\/ last.updated[i].haxelib_type = "Haxelib"
         \/ /\ last.updated[i].haxelib_type = "Git"
            /\ ~get_lib_path_entry(cache, last.updated[i].name).git.dirty)
        => /\ last.updated[i] \in Range(manifest)
           /\ PinnedStatus(i).res = "ok"
           /\ PinnedStatus(i).st.install_type = "AlreadyInstalled"

(***************************************************************************)
(* C40: git-add writes the manifest last                                   *)
(***************************************************************************)
GitAddRan == last.op = "git"

\* the install of the git-add ended in an error
GitAddFailed == GitAddRan /\ last.results[1].res # "ok"

\* C40: git-add writes the manifest only after the clone, the checkout,
\* the submodule update and the ref detection succeeded; when one of them
\* fails no save is attempted and the manifest is as before: no entry is
\* added, and an entry of the same name is neither removed nor changed.
C40_ManifestWrittenLast ==
    /\ GitAddFailed =>
         /\ manifest = last.before
         /\ last.save = "none"
    /\ (GitAddRan /\ last.save # "none") => last.results[1].res = "ok"
    /\ (GitAddRan /\ manifest # last.before) =>
         /\ last.results[1].res = "ok"
         /\ last.save = "ok"

\* a git-add of a name the manifest holds as a registry dependency: the
\* clone was made, a later step failed, the registry entry is still there
C40_Witness ==
    /\ GitAddFailed
    /\ cache # last.cache_before
    /\ \E i \in DOMAIN manifest :
         /\ manifest[i].name = last.statuses[1].lib.name
         /\ manifest[i].haxelib_type = "Haxelib"

====
